---- MODULE Spec2Model ----
(***************************************************************************)
(* SMS API gateway (FastAPI): the /api/query router and its handlers, the  *)
(* /email tracking routes and the shared-key check, as a state machine     *)
(* over one relational store.                                              *)
(***************************************************************************)
EXTENDS Integers, Sequences, FiniteSets, TLC

VARIABLES API_KEY, db, pc, req, params, resp, trace, tracked, graph, clients

vars == <<API_KEY, db, pc, req, params, resp, trace, tracked, graph, clients>>

\* Outside SpecRace there are no concurrent clients.
NoClients == <<>>

(***************************************************************************)
(* Python / JSON values.  A value is a tagged tuple; a str is a sequence   *)
(* of one-character strings, so that LIKE and int() work on its contents.  *)
(***************************************************************************)
None == <<"none">>

PyInt(n) == <<"int", n>>

PyStr(s) == <<"str", s>>

PyBool(b) == <<"bool", b>>

\* A JSON object: d is a function from its keys to their values.
PyDict(d) == <<"dict", d>>

\* Python truthiness, as used by "if not x" and "x or default".
Truthy(v) ==
    CASE v[1] = "none" -> FALSE
      [] v[1] = "int"  -> v[2] # 0
      [] v[1] = "str"  -> Len(v[2]) > 0
      [] v[1] = "bool" -> v[2]

\* x or default
OrDefault(v, d) == IF Truthy(v) THEN v ELSE d

\* dict.get(key): None when the key is missing.
Get(d, k) == IF k \in DOMAIN d THEN d[k] ELSE None

\* dict.get(key, default): the default only when the key is missing.
GetDefault(d, k, dflt) == IF k \in DOMAIN d THEN d[k] ELSE dflt

EmptyDict == [k \in {} |-> None]

\* d[k] = v
Put(d, k, v) == [x \in (DOMAIN d) \cup {k} |-> IF x = k THEN v ELSE d[x]]

(***************************************************************************)
(* QueryRequest and the normalisation of run_query.                        *)
(***************************************************************************)
\* The optional top-level fields of QueryRequest, by declared type.
IntFields == {"limit", "customerId", "assetTypeId", "assetId", "relationshipId",
              "meetingId", "position", "employeeId", "contactId"}

StrFields == {"name", "customerName", "branch", "status", "assetType",
              "vesselName", "country", "createdBy", "notes", "meetingDate",
              "description", "keyTopic", "specOp"}

BoolFields == {"interCo", "blocked", "assetDeleted", "isAlatas"}

QueryRequest == IntFields \cup StrFields \cup BoolFields

\* The list run_query iterates over (isAlatas is declared but not listed).
LegacyFields ==
    << "name", "limit", "customerName", "branch", "status",
       "customerId", "assetTypeId", "assetType",
       "vesselName", "country", "interCo", "blocked", "assetDeleted",
       "assetId", "createdBy", "relationshipId", "notes",
       "meetingId", "meetingDate", "description", "position",
       "employeeId", "keyTopic", "specOp", "contactId" >>

LegacySet == {LegacyFields[i] : i \in 1..Len(LegacyFields)}

\* body.params or {}
ParamsOrEmpty(body) == IF body.params.none THEN EmptyDict ELSE body.params.d

RECURSIVE MergeLoop(_, _, _)
\* The for loop of run_query from position i on: copy a set top-level field
\* into the bag unless the bag already has the key.
MergeLoop(body, p, i) ==
    IF i > Len(LegacyFields) THEN p
    ELSE LET field == LegacyFields[i]
             value == body.top[field]
         IN  IF value # None /\ field \notin DOMAIN p
             THEN MergeLoop(body, Put(p, field, value), i + 1)
             ELSE MergeLoop(body, p, i + 1)

\* A slip in the loop's condition: a set top-level field overwrites the bag.
MergeParamsTopWins(body) ==
    LET p == ParamsOrEmpty(body)
    IN  [k \in (DOMAIN p) \cup {f \in LegacySet : body.top[f] # None} |->
            IF k \in LegacySet /\ body.top[k] # None THEN body.top[k] ELSE p[k]]

MergeParams(body) == MergeLoop(body, ParamsOrEmpty(body), 1)

(***************************************************************************)
(* The relational store.  A table is a set of rows (records of values);    *)
(* ident holds the next IDENTITY value of each table that has one.  The    *)
(* tracking table is a sequence: it has no key, so equal rows can repeat.  *)
(***************************************************************************)
S_A == <<"A">>

S_AB == <<"A", "B">>

S_B == <<"B">>

S_AUK == <<"A", "U", "K">>

S_Open == <<"O", "p", "e", "n">>

\* The default status the docstring of create_meeting announces.
S_Planned == <<"P", "l", "a", "n", "n", "e", "d">>

S_Pending == <<"P", "e", "n", "d", "i", "n", "g">>

S_GPT_API == <<"G", "P", "T", "_", "A", "P", "I">>

S_Date == <<"2", "0", "2", "5", "-", "0", "1", "-", "0", "2">>

AssetRow(id, cid, vname, blocked) ==
    [assetId |-> PyInt(id), customerId |-> PyInt(cid), vesselName |-> PyStr(vname),
     assetTypeId |-> PyInt(1), assetType |-> PyStr(S_A), country |-> PyStr(S_AUK),
     interCompanyFlag |-> PyInt(0), blocked |-> PyInt(blocked),
     assetDeleted |-> PyInt(0)]

Db0 ==
    [customers |-> {[id |-> PyInt(1), name |-> PyStr(S_AB), email |-> None],
                    [id |-> PyInt(2), name |-> PyStr(S_B), email |-> None]},
     quotes    |-> {[id |-> PyInt(1), quoteNumber |-> PyStr(S_A), branch |-> PyStr(S_AUK),
                     createdOn |-> PyInt(1), totalAmount |-> PyInt(10),
                     customerName |-> PyStr(S_AB), quoteStatus |-> PyStr(S_Open)],
                    [id |-> PyInt(2), quoteNumber |-> PyStr(S_B), branch |-> PyStr(S_AUK),
                     createdOn |-> PyInt(2), totalAmount |-> PyInt(5),
                     customerName |-> PyStr(S_B), quoteStatus |-> PyStr(S_Open)]},
     assets    |-> {AssetRow(1, 1, S_AB, 0), AssetRow(2, 2, S_A, 0)},
     contacts  |-> {[contactId |-> PyInt(1), customerId |-> PyInt(1),
                     fullName |-> PyStr(S_B)],
                    [contactId |-> PyInt(2), customerId |-> PyInt(1),
                     fullName |-> PyStr(S_A)]},
     meetings  |-> {[meetingId |-> PyInt(1), customerId |-> PyInt(1),
                     meetingDate |-> PyStr(S_Date), createdBy |-> PyStr(S_GPT_API),
                     status |-> PyStr(S_Pending), assetId |-> None]},
     keyTopics |-> {[keyTopicId |-> PyInt(1), meetingId |-> PyInt(1),
                     keyTopic |-> PyStr(S_A), position |-> None,
                     createdBy |-> PyStr(S_GPT_API)]},
     specOps   |-> {},
     actions   |-> {},
     actionResp |-> {},
     alatasAttendance |-> {},
     custAttendance |-> {},
     createdQuotes |-> {},
     tracking  |-> <<>>,
     ident     |-> [meetings |-> 2, keyTopics |-> 2, specOps |-> 1, actions |-> 1,
                    actionResp |-> 1, alatasAttendance |-> 1, custAttendance |-> 1,
                    createdQuotes |-> 3]]

\* The tables without the identity counters (which a rollback does not undo).
Tables(d) == [t \in (DOMAIN d) \ {"ident"} |-> d[t]]

(***************************************************************************)
(* What the store and Python do, as far as the handlers use it.            *)
(***************************************************************************)
DigitVal == [c \in {"0", "1", "2", "3", "4", "5", "6", "7", "8", "9"} |->
                CASE c = "0" -> 0 [] c = "1" -> 1 [] c = "2" -> 2 [] c = "3" -> 3
                  [] c = "4" -> 4 [] c = "5" -> 5 [] c = "6" -> 6 [] c = "7" -> 7
                  [] c = "8" -> 8 [] c = "9" -> 9]

RECURSIVE ParseDigits(_, _)
ParseDigits(cs, acc) ==
    IF cs = <<>> THEN acc ELSE ParseDigits(Tail(cs), 10 * acc + DigitVal[Head(cs)])

\* int(v): ok with the number, or the exception Python raises.
PyIntOf(v) ==
    CASE v[1] = "int"  -> [ok |-> TRUE, n |-> v[2], err |-> ""]
      [] v[1] = "bool" -> [ok |-> TRUE, n |-> IF v[2] THEN 1 ELSE 0, err |-> ""]
      [] v[1] = "none" -> [ok |-> FALSE, n |-> 0, err |-> "TypeError"]
      [] v[1] = "str"  ->
            IF Len(v[2]) > 0 /\ \A i \in 1..Len(v[2]) : v[2][i] \in DOMAIN DigitVal
            THEN [ok |-> TRUE, n |-> ParseDigits(v[2], 0), err |-> ""]
            ELSE [ok |-> FALSE, n |-> 0, err |-> "ValueError"]

RECURSIVE LikeMatch(_, _)
\* s LIKE pat, with the wildcards % and _.
LikeMatch(pat, s) ==
    IF pat = <<>> THEN s = <<>>
    ELSE IF Head(pat) = "%"
         THEN LikeMatch(Tail(pat), s) \/ (s # <<>> /\ LikeMatch(pat, Tail(s)))
         ELSE /\ s # <<>>
              /\ (Head(pat) = "_" \/ Head(pat) = Head(s))
              /\ LikeMatch(Tail(pat), Tail(s))

\* column LIKE :p where the handler bound p = f"%{v}%".
Like(col, v) ==
    /\ col[1] = "str"
    /\ v[1] = "str"
    /\ LikeMatch(<<"%">> \o v[2] \o <<"%">>, col[2])

\* column = :p (NULL equals nothing).
SqlEq(col, v) == col # None /\ v # None /\ col = v

RECURSIVE SetToSeq(_)
SetToSeq(S) ==
    IF S = {} THEN <<>>
    ELSE LET x == CHOOSE y \in S : TRUE IN <<x>> \o SetToSeq(S \ {x})

\* SELECT TOP (n): the first n rows of the ordered result.
Top(n, rows) == IF n >= Len(rows) THEN rows ELSE SubSeq(rows, 1, n)

\* The store's nondeterminism during one request: fail = k makes the k-th
\* store call (execute or commit) raise SQLAlchemyError; norow = k makes the
\* k-th call return no row, with the row written or not; scan is the order
\* in which a SELECT without ORDER BY returns rows (a sequence of keys).
Fails(oc, k) == oc.fail = k

NoRow(oc, k) == oc.norow = k

\* Position of a key in the scan order; keys the order does not list come
\* last, by value.
ScanRank(oc, i) ==
    IF \E j \in 1..Len(oc.scan) : oc.scan[j] = i
    THEN CHOOSE j \in 1..Len(oc.scan) : oc.scan[j] = i
    ELSE Len(oc.scan) + 1 + i

\* Rows of S in the store's scan order.
Scan(oc, S, key) ==
    SortSeq(SetToSeq(S),
            LAMBDA r1, r2 : ScanRank(oc, r1[key][2]) < ScanRank(oc, r2[key][2]))

(***************************************************************************)
(* Outcomes of a handler: the response, the store events of the request    *)
(* and the committed store afterwards.                                     *)
(***************************************************************************)
Ok(data, ev, d) == [status |-> 200, detail |-> "", data |-> data, ev |-> ev, db |-> d]

HTTPException(code, detail, ev, d) ==
    [status |-> code, detail |-> detail, data |-> <<>>, ev |-> ev, db |-> d]

\* An exception no handler catches: it propagates out of the route, and the
\* framework answers 500 "Internal Server Error", without the exception's text.
Unhandled(err, ev, d) ==
    HTTPException(500, "Internal Server Error", ev \o <<<<"raise", err>>>>, d)

Execute(kind, table, outcome) == <<"execute", kind, table, outcome>>

\* A read handler's single SELECT with a TOP clause and an ORDER BY.
SelectTop(d, oc, limit, table, rows) ==
    IF Fails(oc, 1) \/ limit < 0
    THEN Unhandled("SQLAlchemyError", <<Execute("SELECT", table, "exc")>>, d)
    ELSE Ok(Top(limit, rows), <<Execute("SELECT", table, "ok")>>, d)

\* A read handler's single SELECT without TOP.
Select(d, oc, table, rows) ==
    IF Fails(oc, 1)
    THEN Unhandled("SQLAlchemyError", <<Execute("SELECT", table, "exc")>>, d)
    ELSE Ok(rows, <<Execute("SELECT", table, "ok")>>, d)

\* Collation order of the characters the model uses.
Alphabet == <<"%", "-", "0", "1", "2", "3", "4", "5", "6", "7", "8", "9",
              "A", "B", "G", "I", "K", "O", "P", "T", "U", "_",
              "d", "e", "g", "i", "n", "p", "t", "x">>

CharRank(c) == CHOOSE i \in 1..Len(Alphabet) : Alphabet[i] = c

RECURSIVE StrLess(_, _)
StrLess(a, b) ==
    IF b = <<>> THEN FALSE
    ELSE IF a = <<>> THEN TRUE
    ELSE IF Head(a) = Head(b) THEN StrLess(Tail(a), Tail(b))
    ELSE CharRank(Head(a)) < CharRank(Head(b))

(***************************************************************************)
(* The read handlers of /api/query.                                        *)
(***************************************************************************)
CustomerIdDesc(r1, r2) == r1.id[2] > r2.id[2]

search_customers(d, p, oc) ==
    LET name  == Get(p, "name")
        limit == PyIntOf(GetDefault(p, "limit", PyInt(20)))
    IN  IF ~limit.ok THEN Unhandled(limit.err, <<>>, d)
        ELSE LET hit == {r \in d.customers : Truthy(name) => Like(r.name, name)}
             IN  SelectTop(d, oc, limit.n, "tblCustomer",
                           SortSeq(SetToSeq(hit), CustomerIdDesc))

CreatedOnDesc(r1, r2) == r1.createdOn[2] > r2.createdOn[2]

get_quotes_by_customer(d, p, oc) ==
    LET customer_name == Get(p, "customerName")
    IN  IF ~Truthy(customer_name)
        THEN HTTPException(400, "customerName es obligatorio", <<>>, d)
        ELSE LET limit == PyIntOf(GetDefault(p, "limit", PyInt(20)))
             IN  IF ~limit.ok THEN Unhandled(limit.err, <<>>, d)
                 ELSE LET hit == {r \in d.quotes : Like(r.customerName, customer_name)}
                      IN  SelectTop(d, oc, limit.n, "vwGlobalQuotes",
                                    SortSeq(SetToSeq(hit), CreatedOnDesc))

RECURSIVE SumAmount(_)
SumAmount(S) ==
    IF S = {} THEN 0
    ELSE LET r == CHOOSE x \in S : TRUE IN r.totalAmount[2] + SumAmount(S \ {r})

\* The WHERE clause with the status test left out.
QuoteWhereBranchOnly(r, branch, status) == SqlEq(r.branch, branch)

\* WHERE Branch = :branch AND fldQStatus = :status
QuoteWhere(r, branch, status) ==
    SqlEq(r.branch, branch) /\ SqlEq(r.quoteStatus, status)

\* The SELECT is an aggregate without GROUP BY: its result is one row
\* whatever the table holds, so the handler's fallback for "no row" is
\* never taken.
get_quotes_count_by_branch_status(d, p, oc) ==
    LET branch == Get(p, "branch")
        status == Get(p, "status")
    IN  IF ~Truthy(branch) \/ ~Truthy(status)
        THEN HTTPException(400, "branch y status son obligatorios", <<>>, d)
        ELSE LET hit == {r \in d.quotes : QuoteWhere(r, branch, status)}
                 rows == <<[branch |-> branch, status |-> status,
                            quotesCount |-> PyInt(Cardinality(hit)),
                            totalAmount |-> PyInt(SumAmount(hit))]>>
             IN  IF Fails(oc, 1)
                 THEN Unhandled("SQLAlchemyError",
                                <<Execute("SELECT", "vwGlobalQuotes", "exc")>>, d)
                 ELSE IF Len(rows) > 0
                 THEN Ok(<<rows[1]>>, <<Execute("SELECT", "vwGlobalQuotes", "ok")>>, d)
                 ELSE Ok(<<[branch |-> branch, status |-> status,
                            quotesCount |-> PyInt(0), totalAmount |-> PyInt(0)]>>,
                         <<Execute("SELECT", "vwGlobalQuotes", "ok")>>, d)

AssetIdDesc(r1, r2) == r1.assetId[2] > r2.assetId[2]

\* 1 if flag else 0
Bit(v) == IF Truthy(v) THEN PyInt(1) ELSE PyInt(0)

\* The early return left out: the exact rows are never returned.
ReturnExactNever(rows) == FALSE

\* if rows: return the exact matches
ReturnExact(rows) == Len(rows) > 0

\* The exact query with the blocked filter of the LIKE query added.
ExactWhereFiltered(r, p) ==
    /\ SqlEq(r.vesselName, Get(p, "vesselName"))
    /\ Truthy(Get(p, "customerId")) => SqlEq(r.customerId, Get(p, "customerId"))
    /\ Get(p, "blocked") # None => SqlEq(r.blocked, Bit(Get(p, "blocked")))

\* WHERE fldVName = :exact_name [AND fldCustomerID = :cid]
ExactWhere(r, p) ==
    /\ SqlEq(r.vesselName, Get(p, "vesselName"))
    /\ Truthy(Get(p, "customerId")) => SqlEq(r.customerId, Get(p, "customerId"))

get_assets_by_customer(d, p, oc) ==
    LET limit       == PyIntOf(GetDefault(p, "limit", PyInt(50)))
        customer_id == Get(p, "customerId")
        vessel_name == Get(p, "vesselName")
        exact == {r \in d.assets : ExactWhere(r, p)}
        exactRows == Top(limit.n, Scan(oc, exact, "assetId"))
        like == {r \in d.assets :
                    /\ Truthy(customer_id) => SqlEq(r.customerId, customer_id)
                    /\ Truthy(vessel_name) => Like(r.vesselName, vessel_name)
                    /\ Get(p, "assetTypeId") # None =>
                          SqlEq(r.assetTypeId, Get(p, "assetTypeId"))
                    /\ Truthy(Get(p, "assetType")) =>
                          Like(r.assetType, Get(p, "assetType"))
                    /\ Truthy(Get(p, "country")) => SqlEq(r.country, Get(p, "country"))
                    /\ Get(p, "interCo") # None =>
                          SqlEq(r.interCompanyFlag, Bit(Get(p, "interCo")))
                    /\ Get(p, "blocked") # None =>
                          SqlEq(r.blocked, Bit(Get(p, "blocked")))
                    /\ Get(p, "assetDeleted") # None =>
                          SqlEq(r.assetDeleted, Bit(Get(p, "assetDeleted")))}
        exactEv(o) == Execute("SELECT", "vwCustomerAssetAffiliation exact", o)
        likeEv(o) == Execute("SELECT", "vwCustomerAssetAffiliation like", o)
        \* the LIKE query is store call k
        fallback(ev, k) ==
            IF Fails(oc, k) \/ limit.n < 0
            THEN Unhandled("SQLAlchemyError", ev \o <<likeEv("exc")>>, d)
            ELSE Ok(Top(limit.n, SortSeq(SetToSeq(like), AssetIdDesc)),
                    ev \o <<likeEv("ok")>>, d)
    IN  IF ~limit.ok THEN Unhandled(limit.err, <<>>, d)
        ELSE IF ~Truthy(customer_id) /\ ~Truthy(vessel_name)
        THEN HTTPException(400, "Debes enviar customerId o vesselName", <<>>, d)
        ELSE IF Truthy(vessel_name)
        THEN IF Fails(oc, 1) \/ limit.n < 0
             THEN Unhandled("SQLAlchemyError", <<exactEv("exc")>>, d)
             ELSE IF ReturnExact(exactRows)
             THEN Ok(exactRows, <<exactEv("ok")>>, d)
             ELSE fallback(<<exactEv("ok")>>, 2)
        ELSE fallback(<<>>, 1)

search_assets_global(d, p, oc) ==
    LET limit       == PyIntOf(GetDefault(p, "limit", PyInt(50)))
        vessel_name == Get(p, "vesselName")
    IN  IF ~limit.ok THEN Unhandled(limit.err, <<>>, d)
        ELSE IF ~Truthy(vessel_name)
        THEN HTTPException(400, "You must send vesselName to search global assets",
                           <<>>, d)
        ELSE LET hit == {r \in d.assets : Like(r.vesselName, vessel_name)}
             IN  SelectTop(d, oc, limit.n, "vwCustomerAssetAffiliation",
                           SortSeq(SetToSeq(hit), AssetIdDesc))

FullNameAsc(r1, r2) == StrLess(r1.fullName[2], r2.fullName[2])

get_customer_contacts(d, p, oc) ==
    LET customer_id == Get(p, "customerId")
    IN  IF ~Truthy(customer_id)
        THEN HTTPException(400, "customerId es obligatorio para obtener los contactos",
                           <<>>, d)
        ELSE LET limit == PyIntOf(GetDefault(p, "limit", PyInt(50)))
             IN  IF ~limit.ok THEN Unhandled(limit.err, <<>>, d)
                 ELSE LET hit == {r \in d.contacts : SqlEq(r.customerId, customer_id)}
                      IN  SelectTop(d, oc, limit.n, "vwCustContact",
                                    SortSeq(SetToSeq(hit), FullNameAsc))

MeetingDateDescIdDesc(r1, r2) ==
    \/ StrLess(r2.meetingDate[2], r1.meetingDate[2])
    \/ r1.meetingDate = r2.meetingDate /\ r1.meetingId[2] > r2.meetingId[2]

get_meetings_by_customer(d, p, oc) ==
    LET customer_id == Get(p, "customerId")
    IN  IF ~Truthy(customer_id)
        THEN HTTPException(400, "customerId es obligatorio para obtener los meetings",
                           <<>>, d)
        ELSE LET limit  == PyIntOf(GetDefault(p, "limit", PyInt(50)))
                 status == Get(p, "status")
             IN  IF ~limit.ok THEN Unhandled(limit.err, <<>>, d)
                 ELSE LET hit == {r \in d.meetings :
                                     /\ SqlEq(r.customerId, customer_id)
                                     /\ Truthy(status) => SqlEq(r.status, status)}
                      IN  SelectTop(d, oc, limit.n, "tblCustMeeting",
                                    SortSeq(SetToSeq(hit), MeetingDateDescIdDesc))

KeyTopicIdAsc(r1, r2) == r1.keyTopicId[2] < r2.keyTopicId[2]

get_meeting_key_topics(d, p, oc) ==
    LET meeting_id == Get(p, "meetingId")
    IN  IF ~Truthy(meeting_id)
        THEN HTTPException(400, "meetingId es obligatorio para obtener los key topics",
                           <<>>, d)
        ELSE Select(d, oc, "tblCustMeetingKeyTopic",
                    SortSeq(SetToSeq({r \in d.keyTopics : SqlEq(r.meetingId, meeting_id)}),
                            KeyTopicIdAsc))

SpecOpIdAsc(r1, r2) == r1.specOpId[2] < r2.specOpId[2]

get_meeting_spec_ops(d, p, oc) ==
    LET meeting_id == Get(p, "meetingId")
    IN  IF ~Truthy(meeting_id)
        THEN HTTPException(400, "meetingId es obligatorio para obtener los spec ops",
                           <<>>, d)
        ELSE Select(d, oc, "tblCustMeetingSpecOp",
                    SortSeq(SetToSeq({r \in d.specOps : SqlEq(r.meetingId, meeting_id)}),
                            SpecOpIdAsc))

\* vwCustMeetingActionRespConcat: an action with its responsibles.
ActionRespConcat(d) ==
    {[actionId |-> a.actionId, meetingId |-> a.meetingId,
      description |-> a.description, status |-> a.status,
      responsibles |-> {r.employeeId : r \in {x \in d.actionResp :
                                                  x.actionId = a.actionId}}] :
        a \in d.actions}

get_meeting_actions(d, p, oc) ==
    LET meeting_id == Get(p, "meetingId")
    IN  IF ~Truthy(meeting_id)
        THEN HTTPException(400, "meetingId es obligatorio para obtener las action items",
                           <<>>, d)
        ELSE Select(d, oc, "vwCustMeetingActionRespConcat",
                    Scan(oc, {r \in ActionRespConcat(d) : SqlEq(r.meetingId, meeting_id)},
                         "actionId"))

(***************************************************************************)
(* The write handlers of /api/query.  A session works on a copy w of the   *)
(* committed store d; commit publishes w, rollback drops it.               *)
(***************************************************************************)
\* INSERT ... OUTPUT INSERTED.<id>: the row gets the table's next identity.
Insert(w, table, row) ==
    [w EXCEPT ![table] = @ \cup {row}, !.ident[table] = @ + 1]

\* A session that autocommits: rollback finds nothing to undo.
RollbackAutocommit(d, w) == w

\* db.rollback(): the committed tables; identity values stay consumed.
Rollback(d, w) == [d EXCEPT !.ident = w.ident]

Commit(outcome) == <<"commit", outcome>>

\* An except clause that commits again.
RetryCommitEv == <<"commit", "exc">>

RollbackEv == <<"rollback">>

\* The try block shared by the single-statement write handlers: execute,
\* commit, rollback and 500 on SQLAlchemyError; the missing-row check comes
\* after the commit.  kind is INSERT or EXEC (the stored procedure).
ExecuteAndCommit(d, oc, kind, table, row, noRowDetail, data) ==
    IF Fails(oc, 1)
    THEN HTTPException(500, "SQLAlchemyError",
                       <<Execute(kind, table, "exc"), RollbackEv>>, d)
    ELSE LET wrote == ~NoRow(oc, 1) \/ oc.wrote
             w     == IF wrote THEN Insert(d, table, row) ELSE d
             out   == IF NoRow(oc, 1) THEN "norow" ELSE "ok"
         IN  IF Fails(oc, 2)
             THEN HTTPException(500, "SQLAlchemyError",
                                <<Execute(kind, table, out), Commit("exc"), RollbackEv>>,
                                Rollback(d, w))
             ELSE IF NoRow(oc, 1)
             THEN HTTPException(500, noRowDetail,
                                <<Execute(kind, table, out), Commit("ok")>>, w)
             ELSE Ok(data, <<Execute(kind, table, out), Commit("ok")>>, w)

create_meeting(d, p, oc) ==
    LET customer_id  == Get(p, "customerId")
        meeting_date == Get(p, "meetingDate")
        created_by   == OrDefault(Get(p, "createdBy"), PyStr(S_GPT_API))
        status       == OrDefault(Get(p, "status"), PyStr(S_Pending))
        asset_id     == Get(p, "assetId")
        new_id       == PyInt(d.ident.meetings)
    IN  IF ~Truthy(customer_id) \/ ~Truthy(meeting_date)
        THEN HTTPException(400,
                 "customerId y meetingDate son obligatorios para crear el meeting", <<>>, d)
        ELSE ExecuteAndCommit(d, oc, "INSERT", "meetings",
                 [meetingId |-> new_id, customerId |-> customer_id,
                  meetingDate |-> meeting_date, createdBy |-> created_by,
                  status |-> status, assetId |-> asset_id],
                 "No se pudo obtener el ID del meeting creado",
                 [meetingId |-> new_id, customerId |-> customer_id,
                  meetingDate |-> meeting_date, status |-> status,
                  assetId |-> asset_id])

create_meeting_key_topic(d, p, oc) ==
    LET meeting_id == Get(p, "meetingId")
        key_topic  == Get(p, "keyTopic")
        position   == Get(p, "position")
        created_by == OrDefault(Get(p, "createdBy"), PyStr(S_GPT_API))
        new_id     == PyInt(d.ident.keyTopics)
    IN  IF ~Truthy(meeting_id) \/ ~Truthy(key_topic)
        THEN HTTPException(400,
                 "meetingId y keyTopic son obligatorios para crear un key topic", <<>>, d)
        ELSE ExecuteAndCommit(d, oc, "INSERT", "keyTopics",
                 [keyTopicId |-> new_id, meetingId |-> meeting_id,
                  keyTopic |-> key_topic, position |-> position,
                  createdBy |-> created_by],
                 "No se pudo obtener el ID del key topic creado",
                 [keyTopicId |-> new_id, meetingId |-> meeting_id,
                  keyTopic |-> key_topic, position |-> position,
                  createdBy |-> created_by])

create_meeting_spec_op(d, p, oc) ==
    LET meeting_id == Get(p, "meetingId")
        spec_op    == Get(p, "specOp")
        position   == Get(p, "position")
        created_by == OrDefault(Get(p, "createdBy"), PyStr(S_GPT_API))
        new_id     == PyInt(d.ident.specOps)
    IN  IF ~Truthy(meeting_id) \/ ~Truthy(spec_op)
        THEN HTTPException(400,
                 "meetingId y specOp son obligatorios para crear una spec op", <<>>, d)
        ELSE ExecuteAndCommit(d, oc, "INSERT", "specOps",
                 [specOpId |-> new_id, meetingId |-> meeting_id,
                  specOp |-> spec_op, position |-> position,
                  createdBy |-> created_by],
                 "No se pudo obtener el ID de la Spec Op creada",
                 [specOpId |-> new_id, meetingId |-> meeting_id,
                  specOp |-> spec_op, position |-> position,
                  createdBy |-> created_by])

\* The test written with truthiness instead of "is not None".
HasResponsibleTruthy(branch, employee_id) == Truthy(branch) /\ Truthy(employee_id)

\* if branch is not None and employee_id is not None
HasResponsible(branch, employee_id) == branch # None /\ employee_id # None

create_meeting_action(d, p, oc) ==
    LET meeting_id  == Get(p, "meetingId")
        description == Get(p, "description")
        position    == Get(p, "position")
        status      == OrDefault(Get(p, "status"), PyStr(S_Open))
        branch      == Get(p, "branch")
        employee_id == Get(p, "employeeId")
        created_by  == OrDefault(Get(p, "createdBy"), PyStr(S_GPT_API))
        new_action_id == PyInt(d.ident.actions)
        action_row  == [actionId |-> new_action_id, meetingId |-> meeting_id,
                        description |-> description, position |-> position,
                        createdBy |-> created_by, status |-> status]
        \* the store after the first INSERT, as the session sees it
        w1     == IF ~NoRow(oc, 1) \/ oc.wrote
                  THEN Insert(d, "actions", action_row) ELSE d
        ev1(o) == <<Execute("INSERT", "actions", o)>>
        new_resp_id == PyInt(d.ident.actionResp)
        resp_row == [respId |-> new_resp_id, actionId |-> new_action_id,
                     branch |-> branch, employeeId |-> employee_id,
                     createdBy |-> created_by, employeeIdB4Merging |-> employee_id]
        w2     == IF ~NoRow(oc, 2) \/ oc.wrote
                  THEN Insert(w1, "actionResp", resp_row) ELSE w1
        ev2(o) == ev1("ok") \o <<Execute("INSERT", "actionResp", o)>>
        data(resp_id) ==
            [actionId |-> new_action_id, meetingId |-> meeting_id,
             description |-> description, position |-> position,
             status |-> status, branch |-> branch, employeeId |-> employee_id,
             responsibleRecordId |-> resp_id, createdBy |-> created_by]
    IN  IF ~Truthy(meeting_id) \/ ~Truthy(description)
        THEN HTTPException(400,
                 "meetingId y description son obligatorios para crear una action", <<>>, d)
        ELSE IF Fails(oc, 1)
        THEN HTTPException(500, "SQLAlchemyError", ev1("exc") \o <<RollbackEv>>, d)
        ELSE IF NoRow(oc, 1)
        THEN HTTPException(500, "No se pudo obtener el ID de la accion creada",
                           ev1("norow") \o <<RollbackEv>>, Rollback(d, w1))
        ELSE IF HasResponsible(branch, employee_id)
        THEN IF Fails(oc, 2)
             THEN HTTPException(500, "SQLAlchemyError", ev2("exc") \o <<RollbackEv>>,
                                Rollback(d, w1))
             ELSE IF NoRow(oc, 2)
             THEN HTTPException(500,
                      "La accion se creo pero no se pudo crear el responsable",
                      ev2("norow") \o <<RollbackEv>>, Rollback(d, w2))
             ELSE IF Fails(oc, 3)
             THEN HTTPException(500, "SQLAlchemyError",
                                ev2("ok") \o <<Commit("exc"), RollbackEv>>, Rollback(d, w2))
             ELSE Ok(data(new_resp_id), ev2("ok") \o <<Commit("ok")>>, w2)
        ELSE IF Fails(oc, 2)
        THEN HTTPException(500, "SQLAlchemyError",
                           ev1("ok") \o <<Commit("exc"), RollbackEv>>, Rollback(d, w1))
        ELSE Ok(data(None), ev1("ok") \o <<Commit("ok")>>, w1)

create_meeting_alatas_attendance(d, p, oc) ==
    LET meeting_id  == Get(p, "meetingId")
        employee_id == Get(p, "employeeId")
        created_by  == OrDefault(Get(p, "createdBy"), PyStr(S_GPT_API))
        new_id      == PyInt(d.ident.alatasAttendance)
    IN  IF ~Truthy(meeting_id) \/ ~Truthy(employee_id)
        THEN HTTPException(400,
                 "meetingId y employeeId son obligatorios para crear un asistente Alatas",
                 <<>>, d)
        ELSE ExecuteAndCommit(d, oc, "INSERT", "alatasAttendance",
                 [alatasAttendanceId |-> new_id, meetingId |-> meeting_id,
                  employeeId |-> employee_id, createdBy |-> created_by,
                  employeeIdB4Merging |-> employee_id],
                 "No se pudo obtener el ID del asistente Alatas creado",
                 [alatasAttendanceId |-> new_id, meetingId |-> meeting_id,
                  employeeId |-> employee_id, createdBy |-> created_by])

create_meeting_cust_attendance(d, p, oc) ==
    LET meeting_id == Get(p, "meetingId")
        contact_id == Get(p, "contactId")
        created_by == OrDefault(Get(p, "createdBy"), PyStr(S_GPT_API))
        new_id     == PyInt(d.ident.custAttendance)
    IN  IF ~Truthy(meeting_id) \/ ~Truthy(contact_id)
        THEN HTTPException(400,
                 "meetingId y contactId son obligatorios para crear un asistente cliente",
                 <<>>, d)
        ELSE ExecuteAndCommit(d, oc, "INSERT", "custAttendance",
                 [custAttendanceId |-> new_id, meetingId |-> meeting_id,
                  contactId |-> contact_id, createdBy |-> created_by],
                 "No se pudo obtener el ID del asistente cliente creado",
                 [custAttendanceId |-> new_id, meetingId |-> meeting_id,
                  contactId |-> contact_id, createdBy |-> created_by])

\* The stored procedure uspCreateQuoteAPI: an opaque call that creates a
\* quote and returns its generated id and number.
create_quote_from_asset(d, p, oc) ==
    LET customer_id == Get(p, "customerId")
        asset_id    == Get(p, "assetId")
        branch      == Get(p, "branch")
        created_by  == OrDefault(Get(p, "createdBy"), PyStr(S_GPT_API))
        new_id      == PyInt(d.ident.createdQuotes)
        new_no      == PyStr(<<"Q", Alphabet[3 + (d.ident.createdQuotes % 10)]>>)
    IN  IF ~Truthy(customer_id) \/ ~Truthy(asset_id)
        THEN HTTPException(400,
                 "customerId y assetId son obligatorios para crear la cotizacion", <<>>, d)
        ELSE ExecuteAndCommit(d, oc, "EXEC", "createdQuotes",
                 [quoteId |-> new_id, quoteNo |-> new_no, customerId |-> customer_id,
                  assetId |-> asset_id, branch |-> branch, createdBy |-> created_by,
                  relationshipId |-> Get(p, "relationshipId"),
                  notes |-> Get(p, "notes")],
                 "No se pudo obtener el resultado de la creacion de la cotizacion",
                 [quoteId |-> new_id, quoteNo |-> new_no, customerId |-> customer_id,
                  assetId |-> asset_id, branch |-> branch])

(***************************************************************************)
(* run_query: normalisation, then the dispatch on queryType.               *)
(***************************************************************************)
QueryTypes ==
    {"customers_search", "quotes_by_customer", "quotes_count_by_branch_status",
     "assets_by_customer", "assets_search_global", "create_quote_from_asset",
     "customer_contacts", "meetings_by_customer", "meeting_key_topics",
     "meeting_spec_ops", "meeting_actions", "create_meeting",
     "create_meeting_key_topic", "create_meeting_spec_op", "create_meeting_action",
     "create_meeting_alatas_attendance", "create_meeting_cust_attendance"}

\* The branches of the if/elif chain; the handler's name is the first event
\* of the request.
Handle(qt, d, p, oc) ==
    LET called(r) == [r EXCEPT !.ev = <<<<"handler", qt>>>> \o @]
    IN  CASE qt = "customers_search" -> called(search_customers(d, p, oc))
          [] qt = "quotes_by_customer" -> called(get_quotes_by_customer(d, p, oc))
          [] qt = "quotes_count_by_branch_status" ->
                called(get_quotes_count_by_branch_status(d, p, oc))
          [] qt = "assets_by_customer" -> called(get_assets_by_customer(d, p, oc))
          [] qt = "assets_search_global" -> called(search_assets_global(d, p, oc))
          [] qt = "create_quote_from_asset" -> called(create_quote_from_asset(d, p, oc))
          [] qt = "customer_contacts" -> called(get_customer_contacts(d, p, oc))
          [] qt = "meetings_by_customer" -> called(get_meetings_by_customer(d, p, oc))
          [] qt = "meeting_key_topics" -> called(get_meeting_key_topics(d, p, oc))
          [] qt = "meeting_spec_ops" -> called(get_meeting_spec_ops(d, p, oc))
          [] qt = "meeting_actions" -> called(get_meeting_actions(d, p, oc))
          [] qt = "create_meeting" -> called(create_meeting(d, p, oc))
          [] qt = "create_meeting_key_topic" -> called(create_meeting_key_topic(d, p, oc))
          [] qt = "create_meeting_spec_op" -> called(create_meeting_spec_op(d, p, oc))
          [] qt = "create_meeting_action" -> called(create_meeting_action(d, p, oc))
          [] qt = "create_meeting_alatas_attendance" ->
                called(create_meeting_alatas_attendance(d, p, oc))
          [] qt = "create_meeting_cust_attendance" ->
                called(create_meeting_cust_attendance(d, p, oc))

\* A chain without its final else: an unknown queryType reaches a handler.
DispatchNoElse(qt, d, p, oc) ==
    Handle(IF qt \in QueryTypes THEN qt ELSE "customers_search", d, p, oc)

Dispatch(qt, d, p, oc) ==
    IF qt \in QueryTypes THEN Handle(qt, d, p, oc)
    ELSE HTTPException(400, "queryType no soportado", <<>>, d)

(***************************************************************************)
(* /meeting/report_data.                                                   *)
(***************************************************************************)
\* The oracle as seen after k store calls have been made.
Shift(oc, k) ==
    [oc EXCEPT !.fail = IF @ > k THEN @ - k ELSE 0,
               !.norow = IF @ > k THEN @ - k ELSE 0]

\* The header SELECT without its WHERE clause.
HeaderWhereAny(m, meeting_id) == TRUE

\* WHERE m.fldCustMeetingID = :mid
HeaderWhere(m, meeting_id) == SqlEq(m.meetingId, meeting_id)

\* The header SELECT: the meeting LEFT JOINed with its customer and asset.
MeetingHeaders(d, oc, meeting_id) ==
    LET joined(m) ==
            LET cs == {c \in d.customers : SqlEq(c.id, m.customerId)}
                as == {a \in d.assets : SqlEq(a.assetId, m.assetId)}
                names == IF cs = {} THEN {None} ELSE {c.name : c \in cs}
                vnames == IF as = {} THEN {None} ELSE {a.vesselName : a \in as}
            IN  {[meetingId |-> m.meetingId, customerId |-> m.customerId,
                  customerName |-> n, meetingDate |-> m.meetingDate,
                  createdBy |-> m.createdBy, status |-> m.status,
                  assetId |-> m.assetId, vesselName |-> v] :
                    n \in names, v \in vnames}
    IN  Top(1, Scan(oc, UNION {joined(m) : m \in {x \in d.meetings :
                                    HeaderWhere(x, meeting_id)}}, "meetingId"))

get_meeting_report_data(d, meeting_id, oc) ==
    LET header == MeetingHeaders(d, oc, meeting_id)
        hev(o) == <<Execute("SELECT", "tblCustMeeting header", o)>>
        p      == [meetingId |-> meeting_id]
        kt     == get_meeting_key_topics(d, p, Shift(oc, 1))
        so     == get_meeting_spec_ops(d, p, Shift(oc, 2))
        ac     == get_meeting_actions(d, p, Shift(oc, 3))
    IN  IF Fails(oc, 1) THEN Unhandled("SQLAlchemyError", hev("exc"), d)
        ELSE IF Len(header) = 0
        THEN HTTPException(404, "Meeting not found", hev("ok"), d)
        ELSE IF kt.status # 200 THEN [kt EXCEPT !.ev = hev("ok") \o @]
        ELSE IF so.status # 200 THEN [so EXCEPT !.ev = hev("ok") \o kt.ev \o @]
        ELSE IF ac.status # 200 THEN [ac EXCEPT !.ev = hev("ok") \o kt.ev \o so.ev \o @]
        ELSE Ok([meeting |-> header[1], keyTopics |-> kt.data,
                 specialOps |-> so.data, actions |-> ac.data],
                hev("ok") \o kt.ev \o so.ev \o ac.ev, d)

(***************************************************************************)
(* The mail provider client and the /email routes.                         *)
(***************************************************************************)
RECURSIVE TextNodes(_, _, _)
\* The text nodes of a markup string: the non-empty runs outside <...>.
TextNodes(cs, cur, inTag) ==
    LET flush == IF cur = <<>> THEN <<>> ELSE <<cur>>
    IN  IF cs = <<>> THEN flush
        ELSE IF inTag
        THEN TextNodes(Tail(cs), cur, Head(cs) # ">")
        ELSE IF Head(cs) = "<"
        THEN flush \o TextNodes(Tail(cs), <<>>, TRUE)
        ELSE TextNodes(Tail(cs), Append(cur, Head(cs)), FALSE)

RECURSIVE JoinLines(_)
JoinLines(nodes) ==
    IF nodes = <<>> THEN <<>>
    ELSE IF Len(nodes) = 1 THEN nodes[1]
    ELSE nodes[1] \o <<"\n">> \o JoinLines(Tail(nodes))

\* A conversion that marks an empty body.
html_to_text_marked(html) ==
    IF ~Truthy(html) THEN PyStr(<<"-">>)
    ELSE PyStr(JoinLines(TextNodes(html[2], <<>>, FALSE)))

\* html_to_text: "" for empty input, else the text nodes joined by newlines.
html_to_text(html) ==
    IF ~Truthy(html) THEN PyStr(<<>>)
    ELSE PyStr(JoinLines(TextNodes(html[2], <<>>, FALSE)))

\* The n-th access token the identity provider grants.
Token(n) == <<"token", n>>

\* The provider before any request: no token granted, none used; inbox is
\* the mailbox as the latest request found it.
Graph0 == [granted |-> 0, used |-> <<>>, inbox |-> <<>>]

\* A client that keeps the first token it was granted.
get_token_cached(mail, n) ==
    IF ~mail.grant THEN [ok |-> FALSE, token |-> None, granted |-> n]
    ELSE [ok |-> TRUE, token |-> Token(1), granted |-> n + 1]

\* get_token: a new client application asks for a token; the access token,
\* or RuntimeError when the exchange yields none.  n tokens were granted
\* before.
get_token(mail, n) ==
    IF ~mail.grant THEN [ok |-> FALSE, token |-> None, granted |-> n]
    ELSE [ok |-> TRUE, token |-> Token(n + 1), granted |-> n + 1]

\* A status check that never raises.
raise_for_status_never(o) == FALSE

\* resp.raise_for_status(): raises on a non-success status.
raise_for_status(o) == o = "error"

RECURSIVE FetchBodies(_, _, _, _)
\* The loop of fetch_recent_messages from message i on: one GET per message,
\* raise_for_status after each.
FetchBodies(mail, listed, i, token) ==
    IF i > Len(listed) THEN [ok |-> TRUE, messages |-> <<>>, ev |-> <<>>]
    ELSE LET m == listed[i]
             o == IF mail.failAt = i THEN "error" ELSE "ok"
             get(x) == <<"GET", "message", m.id, token, x>>
             body == GetDefault(m, "body", PyDict(EmptyDict))
         IN  IF raise_for_status(o)
             THEN [ok |-> FALSE, messages |-> <<>>, ev |-> <<get(o)>>]
             ELSE IF body = None
             THEN [ok |-> FALSE, messages |-> <<>>,
                   ev |-> <<get(o), <<"raise", "AttributeError">>>>]
             ELSE LET rest == FetchBodies(mail, listed, i + 1, token)
                      content == GetDefault(body[2], "content", PyStr(<<>>))
                      msg  == [id |-> m.id,
                               internetMessageId |-> m.internetMessageId,
                               inReplyTo |-> m.inReplyTo,
                               from |-> m.from,
                               subject |-> m.subject,
                               body_html |-> OrDefault(content, PyStr(<<>>)),
                               to |-> m.to]
                  IN  [ok |-> rest.ok,
                       messages |-> IF rest.ok THEN <<msg>> \o rest.messages ELSE <<>>,
                       ev |-> <<get(o)>> \o rest.ev]

\* The listing answers a non-success status when the provider fails or
\* rejects $top (it accepts 1 and more).
fetch_recent_messages(top, mail, n) ==
    LET tok == get_token(mail, n)
        tev(o) == <<<<"acquire_token", o>>>>
        lo == IF ~mail.listOk \/ top < 1 THEN "error" ELSE "ok"
        lev == <<<<"GET", "messages", top, tok.token, lo>>>>
    IN  IF ~tok.ok
        THEN [ok |-> FALSE, messages |-> <<>>, ev |-> tev("none"), granted |-> tok.granted]
        ELSE IF raise_for_status(lo)
        THEN [ok |-> FALSE, messages |-> <<>>, ev |-> tev("ok") \o lev,
              granted |-> tok.granted]
        ELSE LET b == FetchBodies(mail, Top(top, mail.inbox), 1, tok.token)
             IN  [ok |-> b.ok, messages |-> b.messages,
                  ev |-> tev("ok") \o lev \o b.ev, granted |-> tok.granted]

get_recent_emails(limit, mail, n) ==
    LET f == fetch_recent_messages(limit, mail, n)
        processed(m) == [id |-> m.id, internetMessageId |-> m.internetMessageId,
                         inReplyTo |-> m.inReplyTo, from |-> m.from, to |-> m.to,
                         subject |-> m.subject,
                         bodyText |-> html_to_text(OrDefault(m.body_html, PyStr(<<>>)))]
    IN  IF ~f.ok THEN HTTPException(500, "upstream", f.ev, <<>>)
        ELSE Ok([i \in 1..Len(f.messages) |-> processed(f.messages[i])], f.ev, <<>>)

\* Index of the row .first() returns among the rows at the indexes I.
First(oc, I) == CHOOSE i \in I : \A j \in I : ScanRank(oc, i) <= ScanRank(oc, j)

was_processed(d, internetMessageId, oc) ==
    LET hit == {i \in 1..Len(d.tracking) :
                    SqlEq(d.tracking[i].InternetMessageID, internetMessageId)}
        ev(o) == <<Execute("SELECT", "tblEmailQuoteTracking", o)>>
    IN  IF Fails(oc, 1) THEN Unhandled("SQLAlchemyError", ev("exc"), d)
        ELSE IF hit # {}
        THEN LET row == d.tracking[First(oc, hit)]
             IN  Ok([processed |-> TRUE, quoteId |-> row.fldQuoteID,
                     quoteNo |-> row.fldQuoteNo, customerId |-> row.fldCustomerID,
                     assetId |-> row.fldAssetID], ev("ok"), d)
        ELSE Ok([processed |-> FALSE], ev("ok"), d)

\* The row the INSERT of track_email binds from the request's dict.
TrackingRow(data) ==
    [InternetMessageID |-> Get(data, "internetMessageId"),
     ForwardedEmailID  |-> Get(data, "forwardedEmailId"),
     Subject           |-> Get(data, "subject"),
     FromAddress       |-> Get(data, "from"),
     fldCustomerID     |-> Get(data, "customerId"),
     fldAssetID        |-> Get(data, "assetId"),
     fldQuoteID        |-> Get(data, "quoteId"),
     fldQuoteNo        |-> Get(data, "quoteNo"),
     fldNotes          |-> Get(data, "notes")]

\* An INSERT that skips a message id the table already holds.
InsertTrackingOnce(d, row) ==
    IF \E i \in 1..Len(d.tracking) :
           d.tracking[i].InternetMessageID = row.InternetMessageID
    THEN d
    ELSE [d EXCEPT !.tracking = Append(@, row)]

\* INSERT INTO tblEmailQuoteTracking (...) VALUES (...)
InsertTracking(d, row) == [d EXCEPT !.tracking = Append(@, row)]

\* The test written as "is None": an empty id passes.
MissingMessageIdIsNone(data) == Get(data, "internetMessageId") = None

\* if not data.get("internetMessageId")
MissingMessageId(data) == ~Truthy(Get(data, "internetMessageId"))

track_email(d, data, oc) ==
    LET ev(o) == <<Execute("INSERT", "tblEmailQuoteTracking", o)>>
        w == InsertTracking(d, TrackingRow(data))
    IN  IF MissingMessageId(data)
        THEN HTTPException(400, "internetMessageId is required", <<>>, d)
        ELSE IF Fails(oc, 1) THEN Unhandled("SQLAlchemyError", ev("exc"), d)
        ELSE IF Fails(oc, 2)
        THEN Unhandled("SQLAlchemyError", ev("ok") \o <<Commit("exc")>>, d)
        ELSE Ok([ok |-> TRUE], ev("ok") \o <<Commit("ok")>>, w)

(***************************************************************************)
(* The key check.                                                          *)
(***************************************************************************)
\* The check without its first disjunct: a missing header then equals an
\* unset API_KEY.
require_api_key_no_empty_check(api_key) == api_key = API_KEY

\* TRUE when the dependency returns, FALSE when it raises 401.
require_api_key(api_key) == ~(~Truthy(api_key) \/ api_key # API_KEY)

(***************************************************************************)
(* Requests.  A client composes a QueryRequest field by field: at most     *)
(* MaxSet fields are set, each at top level (a value of the declared type) *)
(* or in the bag (any JSON value, null included).                          *)
(***************************************************************************)
MaxSet == 2

TopVals(f) ==
    IF f \in IntFields THEN {PyInt(0), PyInt(1)}
    ELSE IF f \in StrFields THEN {PyStr(<<>>), PyStr(S_A)}
    ELSE {PyBool(FALSE), PyBool(TRUE)}

\* Bag values for the normalisation alone: they differ from every TopVals.
AnyVals(k) == {None, PyInt(5)}

\* Bag values for the handlers.
BagVals(k) ==
    IF k = "limit" THEN {None, PyInt(1), PyStr(<<"x">>), PyStr(<<"2">>)}
    ELSE IF k \in IntFields THEN {None, PyInt(0), PyInt(1)}
    ELSE IF k \in StrFields THEN {PyStr(<<>>), PyStr(S_A)}
    ELSE IF k \in BoolFields THEN {PyBool(FALSE), PyBool(TRUE)}
    ELSE {PyInt(5)}

\* The parameters each handler reads from the bag.
Reads(qt) ==
    CASE qt = "customers_search" -> {"name", "limit"}
      [] qt = "quotes_by_customer" -> {"customerName", "limit"}
      [] qt = "quotes_count_by_branch_status" -> {"branch", "status"}
      [] qt = "assets_by_customer" ->
            {"limit", "customerId", "vesselName", "assetTypeId", "assetType",
             "country", "interCo", "blocked", "assetDeleted"}
      [] qt = "assets_search_global" -> {"limit", "vesselName"}
      [] qt = "create_quote_from_asset" ->
            {"customerId", "assetId", "branch", "createdBy", "relationshipId", "notes"}
      [] qt = "customer_contacts" -> {"customerId", "limit"}
      [] qt = "meetings_by_customer" -> {"customerId", "limit", "status"}
      [] qt \in {"meeting_key_topics", "meeting_spec_ops", "meeting_actions"} ->
            {"meetingId"}
      [] qt = "create_meeting" ->
            {"customerId", "meetingDate", "createdBy", "status", "assetId"}
      [] qt = "create_meeting_key_topic" ->
            {"meetingId", "keyTopic", "position", "createdBy"}
      [] qt = "create_meeting_spec_op" ->
            {"meetingId", "specOp", "position", "createdBy"}
      [] qt = "create_meeting_action" ->
            {"meetingId", "description", "position", "status", "branch",
             "employeeId", "createdBy"}
      [] qt = "create_meeting_alatas_attendance" ->
            {"meetingId", "employeeId", "createdBy"}
      [] qt = "create_meeting_cust_attendance" ->
            {"meetingId", "contactId", "createdBy"}
      [] OTHER -> {"name", "meetingId"}

\* The parameters each handler requires: the request is refused unless at
\* least one parameter of every listed group is given.
Required(qt) ==
    CASE qt = "customers_search" -> {}
      [] qt = "quotes_by_customer" -> {{"customerName"}}
      [] qt = "quotes_count_by_branch_status" -> {{"branch"}, {"status"}}
      [] qt = "assets_by_customer" -> {{"customerId", "vesselName"}}
      [] qt = "assets_search_global" -> {{"vesselName"}}
      [] qt = "create_quote_from_asset" -> {{"customerId"}, {"assetId"}}
      [] qt = "customer_contacts" -> {{"customerId"}}
      [] qt = "meetings_by_customer" -> {{"customerId"}}
      [] qt \in {"meeting_key_topics", "meeting_spec_ops", "meeting_actions"} ->
            {{"meetingId"}}
      [] qt = "create_meeting" -> {{"customerId"}, {"meetingDate"}}
      [] qt = "create_meeting_key_topic" -> {{"meetingId"}, {"keyTopic"}}
      [] qt = "create_meeting_spec_op" -> {{"meetingId"}, {"specOp"}}
      [] qt = "create_meeting_action" -> {{"meetingId"}, {"description"}}
      [] qt = "create_meeting_alatas_attendance" -> {{"meetingId"}, {"employeeId"}}
      [] qt = "create_meeting_cust_attendance" -> {{"meetingId"}, {"contactId"}}
      [] OTHER -> {}

NoTop == [f \in QueryRequest |-> None]

NoParams == [none |-> TRUE, d |-> EmptyDict]

Dict(d) == [none |-> FALSE, d |-> d]

Body(qt, p) == [queryType |-> qt, top |-> NoTop, params |-> p]

SetTop(body, f, v) == [body EXCEPT !.top[f] = v]

SetBag(body, k, v) == [body EXCEPT !.params = Dict(Put(ParamsOrEmpty(body), k, v))]

\* Number of fields a body sets, at top level and in the bag together.
FieldsSet(body) ==
    Cardinality({f \in QueryRequest : body.top[f] # None})
        + Cardinality(DOMAIN ParamsOrEmpty(body))

Request(route, body) == [route |-> route, key |-> None, body |-> body]

NoResp == [status |-> 0, detail |-> "", data |-> <<>>]

\* Header values of x-api-key: missing, empty, the configured key, another.
GoodKey == PyStr(<<"k">>)

Keys == {None, PyStr(<<>>), GoodKey, PyStr(<<"x">>)}

\* The client sets one of the optional top-level fields among F.
SetTopField(F) ==
    /\ pc = "composing"
    /\ req.route = "/api/query"
    /\ FieldsSet(req.body) < MaxSet
    /\ \E f \in F \cap QueryRequest : \E v \in TopVals(f) :
          /\ req.body.top[f] = None
          /\ req' = [req EXCEPT !.body = SetTop(req.body, f, v)]
    /\ UNCHANGED <<API_KEY, db, pc, params, resp, trace, tracked, graph, clients>>

\* The client puts one key among K into the params bag: any JSON value when
\* any is TRUE, else a value of BagVals.
SetParam(K, any) ==
    /\ pc = "composing"
    /\ req.route = "/api/query"
    /\ FieldsSet(req.body) < MaxSet
    /\ \E k \in K : \E v \in (IF any THEN AnyVals(k) ELSE BagVals(k)) :
          /\ k \notin DOMAIN ParamsOrEmpty(req.body)
          /\ req' = [req EXCEPT !.body = SetBag(req.body, k, v)]
    /\ UNCHANGED <<API_KEY, db, pc, params, resp, trace, tracked, graph, clients>>

(***************************************************************************)
(* The normalisation on its own.                                           *)
(***************************************************************************)
InitNormalize ==
    /\ API_KEY = GoodKey
    /\ db = Db0
    /\ pc = "composing"
    /\ req \in {Request("/api/query", Body("customers_search", p)) :
                    p \in {NoParams, Dict(EmptyDict)}}
    /\ params = EmptyDict
    /\ resp = NoResp
    /\ trace = <<>>
    /\ tracked = <<>>
    /\ graph = Graph0
    /\ clients = NoClients

\* run_query up to the dispatch: the merged bag the handlers receive.
Normalize ==
    /\ pc = "composing"
    /\ params' = MergeParams(req.body)
    /\ pc' = "merged"
    /\ UNCHANGED <<API_KEY, db, req, resp, trace, tracked, graph, clients>>

NextNormalize ==
    \/ SetTopField(QueryRequest)
    \/ SetParam(QueryRequest \cup {"extra"}, TRUE)
    \/ Normalize

SpecNormalize == InitNormalize /\ [][NextNormalize]_vars

SessionLocal == <<"SessionLocal">>

Close == <<"close">>

Unauthorized == [status |-> 401, detail |-> "Unauthorized", data |-> <<>>]

\* The JSON answer: the handler's return value, or the error's detail.
Response(r, answer) ==
    [status |-> r.status, detail |-> r.detail,
     data |-> IF r.status = 200 THEN answer ELSE <<>>]

\* {"ok": True, "data": data}
Envelope(data) == [ok |-> TRUE, data |-> data]

\* GET /health
health ==
    /\ pc = "composing"
    /\ req.route = "/health"
    /\ \E key \in Keys : req' = [req EXCEPT !.key = key]
    /\ resp' = [status |-> 200, detail |-> "", data |-> [status |-> "ok"]]
    /\ trace' = <<>>
    /\ pc' = "done"
    /\ UNCHANGED <<API_KEY, db, params, tracked, graph, clients>>

\* get_db written without try/finally: the session is closed only when the
\* request raises nothing.
get_db_no_finally(ev, raised) ==
    <<SessionLocal>> \o ev \o (IF raised THEN <<>> ELSE <<Close>>)

\* get_db: db = SessionLocal(); try: yield db; finally: db.close().  ev is
\* what the request does with the session, raised whether it ends by an
\* exception.
get_db(ev, raised) == <<SessionLocal>> \o ev \o <<Close>>

\* A route with the get_db and require_api_key dependencies: the session is
\* opened, the key is checked, the body runs, the session is closed.
Guarded(route, key, r, p, answer) ==
    /\ pc = "composing"
    /\ req.route = route
    /\ req' = [req EXCEPT !.key = key]
    /\ pc' = "done"
    /\ IF require_api_key(key)
       THEN /\ resp' = Response(r, answer)
            /\ db' = r.db
            /\ params' = p
            /\ trace' = get_db(r.ev, r.status # 200)
       ELSE /\ resp' = Unauthorized
            /\ trace' = get_db(<<>>, TRUE)
            /\ UNCHANGED <<db, params>>
    /\ UNCHANGED <<API_KEY, graph, clients>>

\* POST /api/query
run_query(key, oc) ==
    LET p == MergeParams(req.body)
        r == Dispatch(req.body.queryType, db, p, oc)
    IN  /\ Guarded("/api/query", key, r, p, Envelope(r.data))
        /\ UNCHANGED tracked

\* GET /meeting/report_data
meeting_report_data(key, oc) ==
    LET q == ParamsOrEmpty(req.body)
        r == get_meeting_report_data(db, q["meetingId"], oc)
    IN  /\ Guarded("/meeting/report_data", key,
                   [r EXCEPT !.ev = <<<<"handler", "meeting_report_data">>>> \o @], q,
                   Envelope(r.data))
        /\ UNCHANGED tracked

\* GET /email/was_processed
was_processed_route(key, oc) ==
    LET q == ParamsOrEmpty(req.body)
        r == was_processed(db, q["internetMessageId"], oc)
    IN  /\ Guarded("/email/was_processed", key,
                   [r EXCEPT !.ev = <<<<"handler", "was_processed">>>> \o @], q, r.data)
        /\ UNCHANGED tracked

\* POST /email/track
track_email_route(key, oc) ==
    LET q == ParamsOrEmpty(req.body)
        r == track_email(db, q, oc)
    IN  /\ Guarded("/email/track", key,
                   [r EXCEPT !.ev = <<<<"handler", "track_email">>>> \o @], q, r.data)
        \* history: the dicts of the track calls that answered {"ok": true}
        /\ tracked' = IF require_api_key(key) /\ r.status = 200
                      THEN Append(tracked, q) ELSE tracked

\* GET /email/recent: the key check is its only dependency.
get_recent_emails_route(key, mail) ==
    LET q == ParamsOrEmpty(req.body)
        r == get_recent_emails(q["limit"][2], mail, graph.granted)
        f == fetch_recent_messages(q["limit"][2], mail, graph.granted)
        gets == {i \in 1..Len(f.ev) : f.ev[i][1] = "GET"}
    IN  /\ pc = "composing"
        /\ req.route = "/email/recent"
        /\ req' = [req EXCEPT !.key = key]
        /\ pc' = "done"
        /\ IF require_api_key(key)
           THEN /\ resp' = Response(r, Envelope(r.data))
                /\ trace' = <<<<"handler", "get_recent_emails">>>> \o r.ev
                /\ graph' = [granted |-> f.granted,
                             used |-> Append(graph.used, {f.ev[i][4] : i \in gets}),
                             inbox |-> mail.inbox]
           ELSE /\ resp' = Unauthorized
                /\ trace' = <<>>
                /\ UNCHANGED graph
        /\ UNCHANGED <<API_KEY, db, params, tracked, clients>>

(***************************************************************************)
(* Oracles and requests of the specifications.                             *)
(***************************************************************************)
\* Most store calls one request makes (report_data: four SELECTs).
MaxCalls == 4

ScanOrders == {<<1, 2, 3>>}

NoFailure == [fail |-> 0, norow |-> 0, wrote |-> TRUE, scan |-> <<1, 2, 3>>]

Oracles(scans) ==
    {[fail |-> f, norow |-> n, wrote |-> w, scan |-> s] :
        f \in 0..MaxCalls, n \in 0..2, w \in BOOLEAN, s \in scans}
    \ {oc \in [fail : 0..MaxCalls, norow : 0..2, wrote : BOOLEAN, scan : scans] :
            \/ oc.norow = 0 /\ ~oc.wrote
            \/ oc.fail # 0 /\ oc.fail <= oc.norow}

\* The key and oracle of a request: a refused key needs no oracle.
Calls(scans) ==
    {<<k, NoFailure>> : k \in Keys \ {GoodKey}}
    \cup {<<GoodKey, oc>> : oc \in Oracles(scans)}

Html_PP == <<"<", "p", ">", "A", "<", "/", "p", ">", "<", "p", ">", "B", "<", "/", "p", ">">>

\* A message as the provider returns it, without a "body" member.
MessageNoBody(id) ==
    [id |-> id, internetMessageId |-> PyStr(<<"m", "1">>), inReplyTo |-> None,
     from |-> PyStr(S_A), subject |-> PyStr(S_B), to |-> <<PyStr(S_B)>>]

\* A message with a "body" member: null or an object.
Message(id, body) == [k \in {"body"} |-> body] @@ MessageNoBody(id)

\* A body object with the given content.
Content(c) == PyDict([content |-> c])

Inboxes ==
    {<<>>, <<Message(1, Content(PyStr(Html_PP)))>>,
     <<Message(1, Content(None)), Message(2, Content(PyStr(Html_PP)))>>,
     <<Message(1, Content(PyStr(<<>>))), Message(2, Content(PyStr(S_A)))>>,
     <<MessageNoBody(1), Message(2, PyDict(EmptyDict))>>,
     <<Message(1, Content(PyStr(S_A))), Message(2, None)>>}

\* The mail provider during one request: whether it grants a token, whether the listing succeeds, which body call fails.
Mails ==
    [grant : BOOLEAN, listOk : BOOLEAN, failAt : 0..2,
     inbox : Inboxes]

MailCalls ==
    {<<k, CHOOSE m \in Mails : TRUE>> : k \in Keys \ {GoodKey}}
    \cup {<<GoodKey, m>> : m \in Mails}

M1 == PyStr(<<"m", "1">>)

M2 == PyStr(<<"m", "2">>)

TrackDicts ==
    {EmptyDict, [internetMessageId |-> None], [internetMessageId |-> PyStr(<<>>)],
     [internetMessageId |-> M1],
     [internetMessageId |-> M1, quoteId |-> PyInt(7), quoteNo |-> PyStr(S_A),
      customerId |-> PyInt(1), assetId |-> PyInt(2)]}

\* The requests of the other routes, drawn whole.
OtherRequests ==
    {Request("/health", Body("", NoParams))}
    \cup {Request("/meeting/report_data", Body("", Dict([meetingId |-> PyInt(m)]))) :
            m \in {0, 1, 2}}
    \cup {Request("/email/recent", Body("", Dict([limit |-> PyInt(n)]))) : n \in {0, 1, 5}}
    \cup {Request("/email/was_processed",
                  Body("", Dict([internetMessageId |-> i]))) : i \in {M1, M2}}
    \cup {Request("/email/track", Body("", Dict(d))) : d \in TrackDicts}

UnsupportedTypes == {"", "Customers_Search", "delete_meeting"}

Db1 ==
    [Db0 EXCEPT !.tracking = <<TrackingRow([internetMessageId |-> M1,
                                            quoteId |-> PyInt(7)])>>]

(***************************************************************************)
(* Spec: one request, on any route, against the store.                     *)
(***************************************************************************)
Init ==
    /\ API_KEY = GoodKey
    /\ db = Db1
    /\ pc = "composing"
    /\ req \in OtherRequests
               \cup {Request("/api/query", Body(qt, NoParams)) :
                        qt \in QueryTypes \cup UnsupportedTypes}
    /\ params = EmptyDict
    /\ resp = NoResp
    /\ trace = <<>>
    /\ tracked = <<>>
    /\ graph = Graph0
    /\ clients = NoClients

Next ==
    \/ SetTopField(Reads(req.body.queryType))
    \/ SetParam(Reads(req.body.queryType) \cup {"extra"}, FALSE)
    \/ health
    \/ \E c \in Calls(ScanOrders) : run_query(c[1], c[2])
    \/ \E c \in Calls(ScanOrders) : meeting_report_data(c[1], c[2])
    \/ \E c \in MailCalls : get_recent_emails_route(c[1], c[2])
    \/ \E c \in Calls(ScanOrders) : was_processed_route(c[1], c[2])
    \/ \E c \in Calls(ScanOrders) : track_email_route(c[1], c[2])

Spec == Init /\ [][Next]_vars

(***************************************************************************)
(* Properties of Spec.                                                     *)
(***************************************************************************)
Answered(route) == pc = "done" /\ req.route = route /\ require_api_key(req.key)

HandlerRan == \E i \in 1..Len(trace) : trace[i][1] = "handler"

StoreCalled == \E i \in 1..Len(trace) : trace[i][1] \in {"execute", "commit"}

\* An INSERT (or the stored procedure) was executed, or a commit was made.
WriteAttempted ==
    \E i \in 1..Len(trace) :
        \/ trace[i][1] = "execute" /\ trace[i][2] \in {"INSERT", "EXEC"}
        \/ trace[i][1] = "commit"

\* The elements of a sequence.
Range(f) == {f[i] : i \in DOMAIN f}

Executed(kind, table) ==
    \E i \in 1..Len(trace) :
        trace[i][1] = "execute" /\ trace[i][2] = kind /\ trace[i][3] = table

\* A required parameter of the operation is in neither place of the body.
MissingRequired(body) ==
    \E g \in Required(body.queryType) :
        \A f \in g : body.top[f] = None /\ f \notin DOMAIN ParamsOrEmpty(body)

\* C1: a request to a supported queryType that lacks a required parameter
\* ends with a 400 error, and no inserting statement is executed or committed.
C1_MissingRequired400 ==
    Answered("/api/query") /\ req.body.queryType \in QueryTypes
        /\ MissingRequired(req.body)
    => resp.status = 400 /\ ~WriteAttempted /\ db = Db1

\* C2: a queryType that is none of the 17 operation names is answered with
\* a 400 error; no handler is invoked and no store statement is executed.
C2_Unsupported400 ==
    Answered("/api/query") /\ req.body.queryType \notin QueryTypes
    => /\ resp.status = 400
       /\ resp.detail = "queryType no soportado"
       /\ ~HandlerRan
       /\ trace = <<SessionLocal, Close>>
       /\ db = Db1

\* An unknown name that differs from a known one only by case, with a
\* parameter a handler would accept.
C2_Witness ==
    /\ Answered("/api/query")
    /\ req.body.queryType = "Customers_Search"
    /\ "name" \in DOMAIN params
    /\ resp.status = 400

(***************************************************************************)
(* SpecAction: one create_meeting_action request, with every combination   *)
(* of its required parameters and of branch and employeeId.                *)
(***************************************************************************)
Absent == <<"absent">>

InBag(v) == <<"bag", v>>

AtTop(v) == <<"top", v>>

\* The body in which each field of DOMAIN c is absent, in the bag or at top
\* level, as c says.
BodyOf(qt, c) ==
    [queryType |-> qt,
     top    |-> [f \in QueryRequest |->
                    IF f \in DOMAIN c /\ c[f][1] = "top" THEN c[f][2] ELSE None],
     params |-> Dict([k \in {x \in DOMAIN c : c[x][1] = "bag"} |-> c[k][2]])]

ActionChoices ==
    [meetingId   : {Absent, InBag(PyInt(1))},
     description : {Absent, InBag(PyStr(S_A))},
     branch      : {Absent, InBag(None), InBag(PyStr(<<>>)), InBag(PyStr(S_AUK)),
                    AtTop(PyStr(S_A))},
     employeeId  : {Absent, InBag(None), InBag(PyInt(0)), InBag(PyInt(1)),
                    AtTop(PyInt(1))}]

InitAction ==
    /\ API_KEY = GoodKey
    /\ db = Db1
    /\ pc = "composing"
    /\ req \in {Request("/api/query", BodyOf("create_meeting_action", c)) :
                    c \in ActionChoices}
    /\ params = EmptyDict
    /\ resp = NoResp
    /\ trace = <<>>
    /\ tracked = <<>>
    /\ graph = Graph0
    /\ clients = NoClients

NextAction == \E c \in Calls(ScanOrders) : run_query(c[1], c[2])

SpecAction == InitAction /\ [][NextAction]_vars

Outcome(kind, table) ==
    LET i == CHOOSE j \in 1..Len(trace) :
                 trace[j][1] = "execute" /\ trace[j][2] = kind /\ trace[j][3] = table
    IN  trace[i][4]

Commits == {i \in 1..Len(trace) : trace[i][1] = "commit"}

BothPresent == Get(params, "branch") # None /\ Get(params, "employeeId") # None

\* C4: when branch and employeeId are both present and the responsible-party
\* INSERT fails (exception, or no row returned), the action row inserted
\* before it is not in the store after the request.
C4_RollbackAtomicity ==
    /\ Answered("/api/query")
    /\ req.body.queryType = "create_meeting_action"
    /\ BothPresent
    /\ Executed("INSERT", "actionResp")
    /\ Outcome("INSERT", "actionResp") \in {"exc", "norow"}
    => /\ db.actions = Db1.actions
       /\ db.actionResp = Db1.actionResp
       /\ resp.status = 500

\* The action INSERT succeeded, the responsible INSERT wrote its row but
\* returned none, and the handler rolled both back.
C4_Witness ==
    /\ Answered("/api/query")
    /\ BothPresent
    /\ Executed("INSERT", "actions")
    /\ Outcome("INSERT", "actions") = "ok"
    /\ Executed("INSERT", "actionResp")
    /\ Outcome("INSERT", "actionResp") = "norow"
    /\ db.ident.actionResp = Db1.ident.actionResp + 1
    /\ db.actions = Db1.actions

\* C5: a successful create_meeting_action commits exactly one action row,
\* and exactly one responsible-party row carrying that action's generated id
\* if and only if branch and employeeId are both present (not null); one
\* commit, after the last INSERT, publishes them.
C5_OneActionOneResponsible ==
    /\ Answered("/api/query")
    /\ req.body.queryType = "create_meeting_action"
    /\ resp.status = 200
    => LET newActions == db.actions \ Db1.actions
           newResp    == db.actionResp \ Db1.actionResp
       IN  /\ Db1.actions \subseteq db.actions
           /\ Db1.actionResp \subseteq db.actionResp
           /\ Cardinality(newActions) = 1
           /\ \A a \in newActions :
                 /\ a.actionId = resp.data.data.actionId
                 /\ a.meetingId = Get(params, "meetingId")
                 /\ a.description = Get(params, "description")
                 /\ IF BothPresent
                    THEN /\ Cardinality(newResp) = 1
                         /\ \A r \in newResp :
                               /\ r.actionId = a.actionId
                               /\ r.branch = Get(params, "branch")
                               /\ r.employeeId = Get(params, "employeeId")
                               /\ r.respId = resp.data.data.responsibleRecordId
                    ELSE newResp = {} /\ resp.data.data.responsibleRecordId = None
           /\ Cardinality(Commits) = 1
           /\ \A i \in 1..Len(trace) :
                 trace[i][1] \in {"execute", "rollback"} =>
                    /\ trace[i][1] = "execute"
                    /\ \A c \in Commits : i < c

\* Both rows written: branch is the empty string and employeeId is 0, which
\* are present although falsy.
C5_Witness ==
    /\ Answered("/api/query")
    /\ req.body.queryType = "create_meeting_action"
    /\ resp.status = 200
    /\ Get(params, "branch") = PyStr(<<>>)
    /\ Get(params, "employeeId") = PyInt(0)
    /\ Cardinality(db.actionResp \ Db1.actionResp) = 1

(***************************************************************************)
(* SpecAssets: one assets_by_customer request against every asset view     *)
(* made of three rows, returned in any scan order.                         *)
(***************************************************************************)
AssetUniverse == {AssetRow(1, 1, S_AB, 0), AssetRow(2, 2, S_A, 0), AssetRow(3, 1, S_A, 1)}

AssetChoices ==
    [vesselName : {Absent, InBag(PyStr(S_A)), InBag(PyStr(S_B)), AtTop(PyStr(S_A))},
     customerId : {Absent, InBag(PyInt(1)), InBag(PyInt(2))},
     limit      : {Absent, InBag(PyInt(0)), InBag(PyInt(1))},
     blocked    : {Absent, InBag(PyBool(FALSE))},
     assetTypeId : {Absent, InBag(PyInt(2))}]

AllScans == {<<1, 2, 3>>, <<1, 3, 2>>, <<2, 1, 3>>, <<2, 3, 1>>, <<3, 1, 2>>, <<3, 2, 1>>}

InitAssets ==
    /\ API_KEY = GoodKey
    /\ db \in {[Db1 EXCEPT !.assets = A] : A \in SUBSET AssetUniverse}
    /\ pc = "composing"
    /\ req \in {Request("/api/query", BodyOf("assets_by_customer", c)) :
                    c \in AssetChoices}
    /\ params = EmptyDict
    /\ resp = NoResp
    /\ trace = <<>>
    /\ tracked = <<>>
    /\ graph = Graph0
    /\ clients = NoClients

NextAssets == \E c \in Calls(AllScans) : run_query(c[1], c[2])

SpecAssets == InitAssets /\ [][NextAssets]_vars

AssetsAnswered == Answered("/api/query") /\ req.body.queryType = "assets_by_customer"

LikeExecuted == Executed("SELECT", "vwCustomerAssetAffiliation like")

OnlyExactRows ==
    resp.status = 200 =>
        \A i \in 1..Len(resp.data.data) :
            resp.data.data[i].vesselName = Get(params, "vesselName")

\* C6 as stated: with a vesselName that some row equals exactly, the result
\* holds only rows of that exact name and the substring query is not run.
C6_ExactOnly_AsStated ==
    /\ AssetsAnswered
    /\ Truthy(Get(params, "vesselName"))
    /\ \E r \in db.assets : r.vesselName = Get(params, "vesselName")
    => ~LikeExecuted /\ OnlyExactRows

\* C6, amended: with a vesselName that some row equals exactly, that row
\* being of the given customerId when one is given, and a limit that is not
\* 0, the result holds only rows of that exact name, at least one, and the
\* substring query is not run.
C6_ExactOnly ==
    /\ AssetsAnswered
    /\ Truthy(Get(params, "vesselName"))
    /\ \E r \in db.assets :
          /\ r.vesselName = Get(params, "vesselName")
          /\ Truthy(Get(params, "customerId")) => r.customerId = Get(params, "customerId")
    /\ LET limit == PyIntOf(GetDefault(params, "limit", PyInt(50)))
       IN  ~(limit.ok /\ limit.n = 0)
    => /\ ~LikeExecuted
       /\ OnlyExactRows
       /\ resp.status = 200 => Len(resp.data.data) > 0

\* An exact match is returned although another row matches by substring.
C6_Witness ==
    /\ AssetsAnswered
    /\ resp.status = 200
    /\ Get(params, "vesselName") = PyStr(S_A)
    /\ AssetRow(1, 1, S_AB, 0) \in db.assets
    /\ Truthy(Get(params, "customerId")) 
    /\ Len(resp.data.data) = 1
    /\ resp.data.data[1] = AssetRow(3, 1, S_A, 1)
    /\ ~LikeExecuted

\* The rows the exact query selects before TOP: the exact vessel name,
\* of the given customer when customerId is given.
ExactMatches ==
    {r \in db.assets :
        /\ r.vesselName = Get(params, "vesselName")
        /\ Truthy(Get(params, "customerId")) => r.customerId = Get(params, "customerId")}

\* The limit of the answered request (50 when none is sent).
LimitOf == PyIntOf(GetDefault(params, "limit", PyInt(50))).n

\* The exact query ran and returned at least one row.
ExactReturnedRows ==
    /\ AssetsAnswered
    /\ Truthy(Get(params, "vesselName"))
    /\ Outcome("SELECT", "vwCustomerAssetAffiliation exact") = "ok"
    /\ ExactMatches # {}
    /\ LimitOf > 0

\* Some optional filter of the request rejects row r.
Filtered(r) ==
    \/ Get(params, "blocked") # None /\ r.blocked # Bit(Get(params, "blocked"))
    \/ Get(params, "assetTypeId") # None /\ r.assetTypeId # Get(params, "assetTypeId")

\* C24 as stated: when the exact query returns at least one row, the result
\* is exactly the rows with that exact vessel name (of the given customer
\* when customerId is given), whatever the optional filters.
C24_FiltersOnlyOnFallback_AsStated ==
    ExactReturnedRows =>
        /\ resp.status = 200
        /\ Range(resp.data.data) = ExactMatches
        /\ Len(resp.data.data) = Cardinality(ExactMatches)

\* C24, amended: when the exact query returns at least one row, the result
\* is made of rows with that exact vessel name (of the given customer when
\* customerId is given), each once, all of them when limit allows and limit
\* of them otherwise, whatever the optional filters; the query that applies
\* the filters is not run.
C24_FiltersOnlyOnFallback ==
    ExactReturnedRows =>
        /\ resp.status = 200
        /\ Range(resp.data.data) \subseteq ExactMatches
        /\ Cardinality(Range(resp.data.data)) = Len(resp.data.data)
        /\ Len(resp.data.data) = IF LimitOf < Cardinality(ExactMatches)
                                 THEN LimitOf ELSE Cardinality(ExactMatches)
        /\ ~LikeExecuted

\* Every row of the exact name is returned although each is rejected by a
\* filter of the request.
C24_Witness ==
    /\ ExactReturnedRows
    /\ resp.status = 200
    /\ Get(params, "blocked") = PyBool(FALSE)
    /\ Get(params, "assetTypeId") = PyInt(2)
    /\ Len(resp.data.data) = 2
    /\ Range(resp.data.data) = ExactMatches
    /\ \A r \in ExactMatches : Filtered(r)
    /\ \E r \in ExactMatches : r.blocked = PyInt(1)

(***************************************************************************)
(* SpecEmail: any sequence of /email/track and /email/was_processed        *)
(* requests, until the tracking table holds MaxTracked rows.               *)
(***************************************************************************)
MaxTracked == 2

Linkage(q) ==
    [quoteId |-> PyInt(q), quoteNo |-> PyStr(<<"Q", Alphabet[3 + q]>>),
     customerId |-> PyInt(1), assetId |-> PyInt(2)]

TrackDict(imid, q) == [k \in {"internetMessageId"} |-> imid] @@ Linkage(q)

EmailRequests ==
    {Request("/email/track", Body("", Dict(TrackDict(i, q)))) :
        i \in {M1, M2}, q \in {7, 8}}
    \cup {Request("/email/track", Body("", Dict(Linkage(7)))),
          Request("/email/track", Body("", Dict([internetMessageId |-> M1])))}
    \cup {Request("/email/was_processed",
                  Body("", Dict([internetMessageId |-> i]))) : i \in {M1, M2}}

IndexScans == {<<1, 2>>, <<2, 1>>}

InitEmail ==
    /\ API_KEY = GoodKey
    /\ db = Db0
    /\ pc = "composing"
    /\ req \in EmailRequests
    /\ params = EmptyDict
    /\ resp = NoResp
    /\ trace = <<>>
    /\ tracked = <<>>
    /\ graph = Graph0
    /\ clients = NoClients

\* The client sends its next request.
NextRequest ==
    /\ pc = "done"
    /\ pc' = "composing"
    /\ \E r \in EmailRequests :
          /\ r.route = "/email/track" => Len(db.tracking) < MaxTracked
          /\ req' = r
    /\ params' = EmptyDict
    /\ resp' = NoResp
    /\ trace' = <<>>
    /\ UNCHANGED <<API_KEY, db, tracked, graph, clients>>

NextEmail ==
    \/ \E c \in Calls(IndexScans) : track_email_route(c[1], c[2])
    \/ \E c \in Calls(IndexScans) : was_processed_route(c[1], c[2])
    \/ NextRequest

SpecEmail == InitEmail /\ [][NextEmail]_vars

RowsWith(id) == {i \in 1..Len(db.tracking) : db.tracking[i].InternetMessageID = id}

TrackedWith(id) ==
    {j \in 1..Len(tracked) : Get(tracked[j], "internetMessageId") = id}

\* C7 as stated: was_processed answers {"processed": false} while no row has
\* the id, and after a track call with the id it answers processed true with
\* the quoteId, quoteNo, customerId and assetId supplied to that call.
C7_WasProcessedAfterTrack ==
    Answered("/email/was_processed") /\ resp.status = 200 =>
        LET id == params["internetMessageId"]
        IN  /\ RowsWith(id) = {} => resp.data = [processed |-> FALSE]
            /\ \A j \in TrackedWith(id) :
                  /\ resp.data.processed
                  /\ resp.data.quoteId = Get(tracked[j], "quoteId")
                  /\ resp.data.quoteNo = Get(tracked[j], "quoteNo")
                  /\ resp.data.customerId = Get(tracked[j], "customerId")
                  /\ resp.data.assetId = Get(tracked[j], "assetId")

\* C8 as stated: no two tracking rows have the same message id.
C8_OneRowPerMessage ==
    \A i, j \in 1..Len(db.tracking) :
        i # j => db.tracking[i].InternetMessageID # db.tracking[j].InternetMessageID

\* C9: every track call that succeeds adds exactly one row, whatever rows
\* exist: the table is the sequence of the rows of the successful calls, so
\* two successful calls with one id leave two rows with that id.
C9_TrackNotIdempotent ==
    /\ Len(db.tracking) = Len(tracked)
    /\ \A i \in 1..Len(tracked) : db.tracking[i] = TrackingRow(tracked[i])
    /\ \A id \in {M1, M2} : Cardinality(RowsWith(id)) = Cardinality(TrackedWith(id))

\* Two successful track calls with the same id and the same linkage.
C9_Witness ==
    /\ Answered("/email/track")
    /\ resp.status = 200
    /\ Len(tracked) = 2
    /\ tracked[1] = tracked[2]
    /\ Cardinality(RowsWith(M1)) = 2

(***************************************************************************)
(* SpecAuth: one request on any route, with any key, whatever API_KEY the  *)
(* environment holds: a key, the empty string, or nothing.                 *)
(***************************************************************************)
ConfiguredKeys == {GoodKey, PyStr(<<>>), None}

AuthRequests ==
    OtherRequests
    \cup {Request("/api/query", Body(qt, NoParams)) : qt \in QueryTypes \cup UnsupportedTypes}
    \cup {Request("/api/query", Body("customers_search", Dict([q |-> PyStr(S_A)]))),
          Request("/api/query",
                  BodyOf("create_meeting_action",
                         [meetingId |-> InBag(PyInt(1)), description |-> InBag(PyStr(S_A)),
                          branch |-> AtTop(PyStr(S_A)), employeeId |-> AtTop(PyInt(1))]))}

InitAuth ==
    /\ API_KEY \in ConfiguredKeys
    /\ db = Db1
    /\ pc = "composing"
    /\ req \in AuthRequests
    /\ params = EmptyDict
    /\ resp = NoResp
    /\ trace = <<>>
    /\ tracked = <<>>
    /\ graph = Graph0
    /\ clients = NoClients

NextAuth ==
    \/ health
    \/ \E c \in Calls(ScanOrders) : run_query(c[1], c[2])
    \/ \E c \in Calls(ScanOrders) : meeting_report_data(c[1], c[2])
    \/ \E c \in MailCalls : get_recent_emails_route(c[1], c[2])
    \/ \E c \in Calls(ScanOrders) : was_processed_route(c[1], c[2])
    \/ \E c \in Calls(ScanOrders) : track_email_route(c[1], c[2])

SpecAuth == InitAuth /\ [][NextAuth]_vars

\* C10: on every route but /health a request whose key is missing, empty or
\* different from the configured key is answered 401 "Unauthorized": no
\* handler runs, no statement reaches the store, the store is unchanged.
\* /health answers 200 {"status": "ok"} whatever the key.
C10_Unauthorized401 ==
    pc = "done" =>
        /\ req.route # "/health"
              /\ (req.key = None \/ req.key = PyStr(<<>>) \/ req.key # API_KEY)
           => /\ resp = Unauthorized
              /\ ~HandlerRan
              /\ ~StoreCalled
              /\ db = Db1
              /\ tracked = <<>>
        /\ req.route = "/health"
           => resp = [status |-> 200, detail |-> "", data |-> [status |-> "ok"]]

\* The configured key is the empty string and the request carries the empty
\* string: the keys are equal and the write request is refused all the same.
C10_Witness ==
    /\ pc = "done"
    /\ req.route = "/api/query"
    /\ req.body.queryType = "create_meeting_action"
    /\ API_KEY = PyStr(<<>>)
    /\ req.key = API_KEY
    /\ resp = Unauthorized
    /\ db = Db1

(***************************************************************************)
(* Properties of Spec: transactions, failures and the session.             *)
(***************************************************************************)
WriteTypes ==
    {"create_meeting", "create_meeting_key_topic", "create_meeting_spec_op",
     "create_meeting_action", "create_meeting_alatas_attendance",
     "create_meeting_cust_attendance", "create_quote_from_asset"}

\* Positions of the store calls that raised.
StoreExcs ==
    {i \in 1..Len(trace) : trace[i][1] = "execute" /\ trace[i][4] = "exc"}
    \cup {i \in 1..Len(trace) : trace[i] = Commit("exc")}

Rollbacks == {i \in 1..Len(trace) : trace[i] = RollbackEv}

\* C11: a write handler of /api/query makes at most one commit, after all
\* its statements; a 200 answer means the commit succeeded and nothing was
\* rolled back; a store call that raises is followed by a rollback, leaves
\* the tables as they were and ends the request with 500 and the
\* exception's message.
C11_WriteTransaction ==
    Answered("/api/query") /\ req.body.queryType \in WriteTypes =>
        /\ Cardinality(Commits) <= 1
        /\ \A c \in Commits : \A i \in 1..Len(trace) :
              trace[i][1] = "execute" => i < c
        /\ resp.status = 200 =>
              /\ \E c \in Commits : trace[c] = Commit("ok")
              /\ Rollbacks = {}
              /\ StoreExcs = {}
        /\ \A e \in StoreExcs :
              /\ \E r \in Rollbacks : r > e
              /\ resp.status = 500
              /\ resp.detail = "SQLAlchemyError"
              /\ Tables(db) = Tables(Db1)

\* The stored procedure ran and the commit raised: rolled back, 500.
C11_Witness ==
    /\ Answered("/api/query")
    /\ req.body.queryType = "create_quote_from_asset"
    /\ trace = <<SessionLocal, <<"handler", "create_quote_from_asset">>,
                 Execute("EXEC", "createdQuotes", "ok"), Commit("exc"), RollbackEv,
                 Close>>
    /\ resp.status = 500
    /\ db.createdQuotes = Db1.createdQuotes

\* C12 as stated: a store call of /email/track that raises (the INSERT or
\* the commit) is followed by a rollback, no tracking row of the request
\* persists, and the answer is a 5xx error carrying the exception's message.
C12_TrackRollback ==
    Answered("/email/track") =>
        \A e \in StoreExcs :
            /\ \E r \in Rollbacks : r > e
            /\ db = Db1
            /\ resp.status >= 500
            /\ resp.detail = "SQLAlchemyError"

Opens == {i \in 1..Len(trace) : trace[i] = SessionLocal}

Closes == {i \in 1..Len(trace) : trace[i] = Close}

SessionRoutes ==
    {"/api/query", "/meeting/report_data", "/email/was_processed", "/email/track"}

\* C13: when a request has ended, the session it opened has been closed
\* exactly once, after everything else the request did, whatever the
\* outcome; the routes with the get_db dependency open exactly one session,
\* first, and the other routes open none.
C13_SessionReleased ==
    pc = "done" =>
        /\ Cardinality(Opens) = (IF req.route \in SessionRoutes THEN 1 ELSE 0)
        /\ Cardinality(Closes) = Cardinality(Opens)
        /\ \A o \in Opens : o = 1
        /\ \A c \in Closes : c = Len(trace)
        /\ resp.status \in {200, 400, 401, 404, 500}

\* A read whose SELECT raised: the exception propagates and the session is
\* closed all the same.
C13_Witness ==
    /\ Answered("/email/was_processed")
    /\ resp.status = 500
    /\ trace = <<SessionLocal, <<"handler", "was_processed">>,
                 Execute("SELECT", "tblEmailQuoteTracking", "exc"),
                 <<"raise", "SQLAlchemyError">>, Close>>

\* C14: /email/track without an internetMessageId (absent, null or empty)
\* is answered 400 and no statement reaches the store; with one, and no
\* store call raising, it appends exactly the row of the request and
\* answers {"ok": true}.
C14_TrackValidation ==
    Answered("/email/track") =>
        LET id == Get(params, "internetMessageId")
        IN  /\ id \in {None, PyStr(<<>>)} =>
                  /\ resp.status = 400
                  /\ ~StoreCalled
                  /\ db = Db1
            /\ id \notin {None, PyStr(<<>>)} /\ StoreExcs = {} =>
                  /\ resp.status = 200
                  /\ resp.data = [ok |-> TRUE]
                  /\ db = [Db1 EXCEPT !.tracking = Append(@, TrackingRow(params))]

\* The id is there and empty.
C14_Witness ==
    /\ Answered("/email/track")
    /\ "internetMessageId" \in DOMAIN params
    /\ params["internetMessageId"] = PyStr(<<>>)
    /\ resp.status = 400
    /\ db.tracking = Db1.tracking

(***************************************************************************)
(* SpecReport: one GET /meeting/report_data against a store with two       *)
(* meetings, each with key topics, special operations and actions.         *)
(***************************************************************************)
DbReport ==
    [Db1 EXCEPT
       !.meetings = @ \cup {[meetingId |-> PyInt(2), customerId |-> PyInt(2),
                             meetingDate |-> PyStr(S_Date),
                             createdBy |-> PyStr(S_GPT_API),
                             status |-> PyStr(S_Open), assetId |-> PyInt(2)]},
       !.keyTopics = @ \cup {[keyTopicId |-> PyInt(k), meetingId |-> PyInt(k - 1),
                              keyTopic |-> PyStr(S_B), position |-> None,
                              createdBy |-> PyStr(S_GPT_API)] : k \in {2, 3}},
       !.specOps = {[specOpId |-> PyInt(k), meetingId |-> PyInt(k),
                     specOp |-> PyStr(S_A), position |-> None,
                     createdBy |-> PyStr(S_GPT_API)] : k \in {1, 2}},
       !.actions = {[actionId |-> PyInt(k), meetingId |-> PyInt(IF k = 3 THEN 2 ELSE 1),
                     description |-> PyStr(S_A), status |-> PyStr(S_Open)] :
                        k \in {1, 2, 3}},
       !.actionResp = {[respId |-> PyInt(1), actionId |-> PyInt(1),
                        branch |-> PyStr(S_AUK), employeeId |-> PyInt(1)]},
       !.ident = [@ EXCEPT !.meetings = 3, !.keyTopics = 4, !.specOps = 3,
                           !.actions = 4, !.actionResp = 2]]

ReportRequests ==
    {Request("/meeting/report_data", Body("", Dict([meetingId |-> PyInt(m)]))) :
        m \in 0..3}

\* Any of the meetings may be missing while its children are there: the
\* create handlers of the children do not look the meeting up.
InitReport ==
    /\ API_KEY = GoodKey
    /\ db \in {Db1} \cup {[DbReport EXCEPT !.meetings = M] :
                              M \in SUBSET DbReport.meetings}
    /\ pc = "composing"
    /\ req \in ReportRequests
    /\ params = EmptyDict
    /\ resp = NoResp
    /\ trace = <<>>
    /\ tracked = <<>>
    /\ graph = Graph0
    /\ clients = NoClients

NextReport == \E c \in Calls(AllScans) : meeting_report_data(c[1], c[2])

SpecReport == InitReport /\ [][NextReport]_vars

Executes == {i \in 1..Len(trace) : trace[i][1] = "execute"}


\* C15: /meeting/report_data for a meeting id without a header row answers
\* 404 after the header SELECT alone; with a header row and no failing
\* statement it answers the four sections meeting, keyTopics, specialOps
\* and actions, each holding the rows of that meeting id and no others.
C15_ReportData ==
    Answered("/meeting/report_data") =>
        LET mid == params["meetingId"]
            exists == \E m \in db.meetings : m.meetingId = mid
            data == resp.data.data
        IN  /\ ~exists /\ StoreExcs = {} =>
                  /\ resp.status = 404
                  /\ resp.detail = "Meeting not found"
                  /\ Cardinality(Executes) = 1
                  /\ Executed("SELECT", "tblCustMeeting header")
            /\ exists /\ StoreExcs = {} => resp.status = 200
            /\ resp.status = 200 =>
                  /\ exists
                  /\ DOMAIN data = {"meeting", "keyTopics", "specialOps", "actions"}
                  /\ data.meeting.meetingId = mid
                  /\ Range(data.keyTopics) = {r \in db.keyTopics : r.meetingId = mid}
                  /\ Len(data.keyTopics) = Cardinality(Range(data.keyTopics))
                  /\ Range(data.specialOps) = {r \in db.specOps : r.meetingId = mid}
                  /\ Len(data.specialOps) = Cardinality(Range(data.specialOps))
                  /\ Range(data.actions)
                        = {r \in ActionRespConcat(db) : r.meetingId = mid}
                  /\ Len(data.actions) = Cardinality(Range(data.actions))
                  /\ Cardinality(Executes) = 4

\* Meeting 2 is missing and its key topic, special operation and action are
\* there: 404 after one SELECT.
C15_Witness ==
    /\ Answered("/meeting/report_data")
    /\ params["meetingId"] = PyInt(2)
    /\ db = [DbReport EXCEPT !.meetings = Db1.meetings]
    /\ resp.status = 404
    /\ trace = <<SessionLocal, <<"handler", "meeting_report_data">>,
                 Execute("SELECT", "tblCustMeeting header", "ok"), Close>>

(***************************************************************************)
(* SpecQuotes: one quotes_count_by_branch_status request against any       *)
(* subset of four quotes.                                                  *)
(***************************************************************************)
Quote(id, branch, status, amount) ==
    [id |-> PyInt(id), quoteNumber |-> PyStr(S_A), branch |-> PyStr(branch),
     createdOn |-> PyInt(id), totalAmount |-> PyInt(amount),
     customerName |-> PyStr(S_AB), quoteStatus |-> PyStr(status)]

QuoteUniverse ==
    {Quote(1, S_AUK, S_Open, 10), Quote(2, S_AUK, S_Open, 5),
     Quote(3, S_AUK, S_Pending, 7), Quote(4, S_A, S_Open, 3)}

QuoteChoices ==
    [branch : {Absent, InBag(None), InBag(PyStr(<<>>)), InBag(PyStr(S_AUK)),
               InBag(PyStr(S_B)), AtTop(PyStr(S_A))},
     status : {Absent, InBag(PyStr(<<>>)), InBag(PyStr(S_Open)),
               AtTop(PyStr(S_Pending))}]

InitQuotes ==
    /\ API_KEY = GoodKey
    /\ db \in {[Db1 EXCEPT !.quotes = Q] : Q \in SUBSET QuoteUniverse}
    /\ pc = "composing"
    /\ req \in {Request("/api/query", BodyOf("quotes_count_by_branch_status", c)) :
                    c \in QuoteChoices}
    /\ params = EmptyDict
    /\ resp = NoResp
    /\ trace = <<>>
    /\ tracked = <<>>
    /\ graph = Graph0
    /\ clients = NoClients

NextQuotes == \E c \in Calls(ScanOrders) : run_query(c[1], c[2])

SpecQuotes == InitQuotes /\ [][NextQuotes]_vars

\* The quotes of the store with exactly the branch and status of the request.
Matching ==
    {r \in db.quotes : /\ r.branch = Get(params, "branch")
                       /\ r.quoteStatus = Get(params, "status")}

\* C16: quotes_count_by_branch_status with a branch and a status answers,
\* unless the SELECT raises, a list of one element: the branch and status of
\* the request, the number of quotes with exactly that branch and status and
\* the sum of their amounts (0 and 0 when there is none).
C16_QuotesCount ==
    /\ Answered("/api/query")
    /\ req.body.queryType = "quotes_count_by_branch_status"
    /\ Truthy(Get(params, "branch"))
    /\ Truthy(Get(params, "status"))
    /\ StoreExcs = {}
    => /\ resp.status = 200
       /\ Len(resp.data.data) = 1
       /\ resp.data.data[1] =
             [branch |-> Get(params, "branch"), status |-> Get(params, "status"),
              quotesCount |-> PyInt(Cardinality(Matching)),
              totalAmount |-> PyInt(SumAmount(Matching))]
       /\ Matching = {} => /\ resp.data.data[1].quotesCount = PyInt(0)
                           /\ resp.data.data[1].totalAmount = PyInt(0)

\* Two quotes match, a third has the branch with another status, a fourth
\* the status with another branch.
C16_Witness ==
    /\ Answered("/api/query")
    /\ req.body.queryType = "quotes_count_by_branch_status"
    /\ db.quotes = QuoteUniverse
    /\ resp.status = 200
    /\ resp.data.data = <<[branch |-> PyStr(S_AUK), status |-> PyStr(S_Open),
                           quotesCount |-> PyInt(2), totalAmount |-> PyInt(15)]>>

(***************************************************************************)
(* SpecMail: up to MaxFetch GET /email/recent requests, one after the      *)
(* other, against a provider that grants a new token at every exchange.    *)
(***************************************************************************)
MaxFetch == 2

MailRequests ==
    {Request("/email/recent", Body("", Dict([limit |-> PyInt(n)]))) : n \in {0, 1, 2, 5}}

InitMail ==
    /\ API_KEY = GoodKey
    /\ db = Db1
    /\ pc = "composing"
    /\ req \in MailRequests
    /\ params = EmptyDict
    /\ resp = NoResp
    /\ trace = <<>>
    /\ tracked = <<>>
    /\ graph = Graph0
    /\ clients = NoClients

\* The client sends its next /email/recent request.
NextFetch ==
    /\ pc = "done"
    /\ Len(graph.used) < MaxFetch
    /\ pc' = "composing"
    /\ req' \in MailRequests
    /\ resp' = NoResp
    /\ trace' = <<>>
    /\ UNCHANGED <<API_KEY, db, params, tracked, graph, clients>>

NextMail ==
    \/ \E c \in MailCalls : get_recent_emails_route(c[1], c[2])
    \/ NextFetch

SpecMail == InitMail /\ [][NextMail]_vars

TokenRequests == {i \in 1..Len(trace) : trace[i][1] = "acquire_token"}

Gets == {i \in 1..Len(trace) : trace[i][1] = "GET"}

\* The provider calls of the request that failed: an exchange without a
\* token, a GET with a non-success status.
MailFailures ==
    {i \in TokenRequests : trace[i][2] = "none"}
    \cup {i \in Gets : trace[i][5] = "error"}

\* C17: when the exchange yields no token, or the listing or any body call
\* answers a non-success status, /email/recent ends with 500 and returns no
\* message, not even those whose body was fetched before the failure; a
\* 200 answer has one element per body fetched and follows no failure, and
\* the only other error is a message whose "body" member is null.
C17_FetchFailsWhole ==
    Answered("/email/recent") =>
        /\ MailFailures # {} => resp.status = 500 /\ resp.data = <<>>
        /\ MailFailures = {} /\ resp.status # 200 =>
              \E i \in 1..Len(trace) : trace[i] = <<"raise", "AttributeError">>
        /\ resp.status = 200 =>
              /\ MailFailures = {}
              /\ Len(resp.data.data)
                    = Cardinality({i \in Gets : trace[i][2] = "message"})

\* The first body is fetched and the second body call fails.
C17_Witness ==
    /\ Answered("/email/recent")
    /\ \E i, j \in Gets :
          /\ i < j
          /\ trace[i][2] = "message" /\ trace[i][5] = "ok"
          /\ trace[j][2] = "message" /\ trace[j][5] = "error"
    /\ resp.status = 500
    /\ resp.data = <<>>

\* C18: a request asks for a token exactly once, before any GET, and every
\* GET of the request carries the token granted then; the tokens used in
\* different invocations are different.
C18_FreshToken ==
    /\ \A i \in 1..Len(graph.used) : Cardinality(graph.used[i]) <= 1
    /\ \A i, j \in 1..Len(graph.used) :
          i # j => graph.used[i] \cap graph.used[j] = {}
    /\ Answered("/email/recent") =>
          /\ Cardinality(TokenRequests) = 1
          /\ \A a \in TokenRequests : \A g \in Gets :
                /\ a < g
                /\ trace[a][2] = "ok"
                /\ trace[g][4] = Token(graph.granted)
          /\ graph.used[Len(graph.used)] = {trace[g][4] : g \in Gets}

\* Two invocations, the second with a listing and two body calls.
C18_Witness ==
    /\ Answered("/email/recent")
    /\ graph.used = <<{Token(1)}, {Token(2)}>>
    /\ Cardinality(Gets) = 3
    /\ resp.status = 200

(***************************************************************************)
(* Properties of Spec: no retries.                                         *)
(***************************************************************************)
\* Positions of the calls a request makes to the store or to the provider.
OutCalls ==
    {i \in 1..Len(trace) : trace[i][1] \in {"execute", "commit", "acquire_token", "GET"}}

\* What identifies a call: the statement, the commit, the exchange, the URL.
CallId(e) == IF e[1] \in {"execute", "GET"} THEN <<e[1], e[2], e[3]>> ELSE <<e[1]>>

\* C19: within one request no statement, commit, credential exchange or
\* provider GET is made twice; after the first of them that fails (raises,
\* yields no token, answers a non-success status) the request makes no
\* further one and ends with an error.
C19_NoRetries ==
    pc = "done" =>
        /\ \A i, j \in OutCalls : i # j => CallId(trace[i]) # CallId(trace[j])
        /\ \A f \in StoreExcs \cup MailFailures :
              /\ \A i \in OutCalls : i <= f
              /\ resp.status = 500

\* The header SELECT of the report succeeded and the key topics SELECT
\* raised: the two other SELECTs are not made.
C19_Witness ==
    /\ Answered("/meeting/report_data")
    /\ trace = <<SessionLocal, <<"handler", "meeting_report_data">>,
                 Execute("SELECT", "tblCustMeeting header", "ok"),
                 Execute("SELECT", "tblCustMeetingKeyTopic", "exc"),
                 <<"raise", "SQLAlchemyError">>, Close>>
    /\ resp.status = 500

(***************************************************************************)
(* Properties of SpecMail: the text of a body.                             *)
(***************************************************************************)
\* The message has no body to convert: no "body" member, a body object
\* without content, or with a null or empty content.
BodyAbsent(m) ==
    \/ "body" \notin DOMAIN m
    \/ /\ m.body # None
       /\ \/ "content" \notin DOMAIN m.body[2]
          \/ m.body[2]["content"] \in {None, PyStr(<<>>)}

\* C20: html_to_text of None and of the empty string is the empty string,
\* and every message of a /email/recent answer whose body is absent has
\* bodyText equal to the empty string.
C20_EmptyBodyText ==
    /\ html_to_text(None) = PyStr(<<>>)
    /\ html_to_text(PyStr(<<>>)) = PyStr(<<>>)
    /\ Answered("/email/recent") /\ resp.status = 200 =>
          \A i \in 1..Len(resp.data.data) :
              /\ resp.data.data[i].id = graph.inbox[i].id
              /\ BodyAbsent(graph.inbox[i]) =>
                    resp.data.data[i].bodyText = PyStr(<<>>)

\* The first message has no "body" member, the second a body object
\* without content.
C20_Witness ==
    /\ Answered("/email/recent")
    /\ resp.status = 200
    /\ graph.inbox = <<MessageNoBody(1), Message(2, PyDict(EmptyDict))>>
    /\ Len(resp.data.data) = 2
    /\ resp.data.data[1].bodyText = PyStr(<<>>)
    /\ resp.data.data[2].bodyText = PyStr(<<>>)

(***************************************************************************)
(* SpecMeeting: one create_meeting request, each of its five parameters    *)
(* absent, in the bag or at top level.                                     *)
(***************************************************************************)
MeetingChoices ==
    [customerId  : {Absent, InBag(PyInt(0)), InBag(PyInt(1)), AtTop(PyInt(2))},
     meetingDate : {Absent, InBag(PyStr(<<>>)), InBag(PyStr(S_Date))},
     status      : {Absent, InBag(None), InBag(PyStr(<<>>)), InBag(PyStr(S_Open)),
                    AtTop(PyStr(S_A))},
     createdBy   : {Absent, InBag(PyStr(<<>>)), InBag(PyStr(S_A))},
     assetId     : {Absent, InBag(PyInt(2))}]

InitMeeting ==
    /\ API_KEY = GoodKey
    /\ db = Db1
    /\ pc = "composing"
    /\ req \in {Request("/api/query", BodyOf("create_meeting", c)) :
                    c \in MeetingChoices}
    /\ params = EmptyDict
    /\ resp = NoResp
    /\ trace = <<>>
    /\ tracked = <<>>
    /\ graph = Graph0
    /\ clients = NoClients

NextMeeting == \E c \in Calls(ScanOrders) : run_query(c[1], c[2])

SpecMeeting == InitMeeting /\ [][NextMeeting]_vars

C22_NoPartialSuccess ==
    /\ Answered("/api/query")
    /\ req.body.queryType \in WriteTypes
    /\ resp.status # 200
    => Tables(db) = Tables(Db1)

(***************************************************************************)
(* SpecRace: two clients of the /email routes that hold the key.  Each     *)
(* asks was_processed for its message id and calls track only when the     *)
(* answer is {"processed": false}.  Every request runs in a session of its *)
(* own and takes no lock, so the requests of the two clients interleave in *)
(* any order; a request takes effect at its commit.                        *)
(***************************************************************************)
Clients == {1, 2}

\* What client c sends to /email/track for message id.
ClientDict(c, id) == TrackDict(id, 6 + c)

InitRace ==
    /\ API_KEY = GoodKey
    /\ db \in {Db0, Db1}
    /\ pc = "done"
    /\ req = Request("/email/was_processed", Body("", Dict(EmptyDict)))
    /\ params = EmptyDict
    /\ resp = NoResp
    /\ trace = <<>>
    /\ tracked = <<>>
    /\ graph = Graph0
    /\ clients \in [Clients -> [pc : {"check"}, id : {M1, M2}]]

\* GET /email/was_processed of client c, and what the client does with the
\* answer.
ClientCheck(c, oc) ==
    LET r == was_processed(db, clients[c].id, oc)
        unprocessed == r.status = 200 /\ r.data = [processed |-> FALSE]
    IN  /\ clients[c].pc = "check"
        /\ require_api_key(API_KEY)
        /\ clients' = [clients EXCEPT ![c].pc = IF unprocessed THEN "track" ELSE "done"]
        /\ trace' = Append(trace, <<c, "was_processed", r.status>>)
        /\ UNCHANGED <<API_KEY, db, pc, req, params, resp, tracked, graph>>

\* POST /email/track of client c.
ClientTrack(c, oc) ==
    LET q == ClientDict(c, clients[c].id)
        r == track_email(db, q, oc)
    IN  /\ clients[c].pc = "track"
        /\ require_api_key(API_KEY)
        /\ db' = r.db
        /\ tracked' = IF r.status = 200 THEN Append(tracked, q) ELSE tracked
        /\ clients' = [clients EXCEPT ![c].pc = "done"]
        /\ trace' = Append(trace, <<c, "track", r.status>>)
        /\ UNCHANGED <<API_KEY, pc, req, params, resp, graph>>

NextRace ==
    \/ \E c \in Clients, oc \in Oracles(IndexScans) : ClientCheck(c, oc)
    \/ \E c \in Clients, oc \in Oracles(IndexScans) : ClientTrack(c, oc)

SpecRace == InitRace /\ [][NextRace]_vars

Finished == \A c \in Clients : clients[c].pc = "done"

\* C23 as stated: when both clients asked was_processed for the same message
\* id and called track only on the answer processed false, the table holds
\* at most one row with that id after both have finished.
C23_CheckThenTrack ==
    /\ Finished
    /\ clients[1].id = clients[2].id
    => Cardinality(RowsWith(clients[1].id)) <= 1

====
